---- MODULE Spec2Model ----
(***************************************************************************)
(* Verification model of the RobotEvents -> Firebase sync system.          *)
(*                                                                         *)
(*   - the authenticated fetcher apiGet and the key rotation getNextApiKey *)
(*     (utils/api-client.js, utils/rate-limiter.js)                        *)
(*   - the paginated collector fetchAllPages (utils/pagination.js)         *)
(*   - the change-aware durable writer batchWriteToFirestore               *)
(*     (utils/firebase-helpers.js)                                         *)
(*   - the orchestrator sync (sync.js), the low-latency publisher          *)
(*     updateRealtimeDB and the live loop runLoop (live-loop.js)           *)
(*                                                                         *)
(* Times are in milliseconds, as in the source.                            *)
(***************************************************************************)
EXTENDS Integers, Sequences, FiniteSets, TLC

\* ---------------------------------------------------------------- bounds
NumKeys == 3            \* number of configured API keys
MaxClock == 90000       \* the model stops advancing the clock past this
MaxCalls == 3           \* number of apiGet calls made by the process
WaitBudget == 11        \* the number of consecutive waits C8 is tried with
MaxDocs == 2            \* longest record list handed to the durable writer
MaxPages == 4            \* pages one fetchAllPages call is followed through
MaxChunks == 3          \* chunks of the longest bulk list handed to the writer
DurationSteps == 5      \* the longest live cycle, in quarters of INTERVAL_MS
PartialPage == 137      \* the size of a page that is neither empty nor full
LatencySteps == 2       \* request latency, in units of PaceDelay

\* ------------------------------------------------------- program constants
CooldownDuration == 60000   \* rateLimitedKeys.set(apiKey, now + 60000)
DefaultWait == 5000         \* now + 5000 when no cooldown is pending
MinWait == 1000             \* Math.max(1000, ...)
MaxWait == 30000            \* Math.min(..., 30000)
SpinDelay == 2000           \* sleep(2000) when availableKeys.length <= 1
PaceDelay == 500            \* sleep(500) after a successful request
BATCH_SIZE == 500           \* Firestore batch limit
perPage == 250              \* const perPage = 250
PageCeiling == 1000         \* if (page > 1000) break
LOOP_DURATION_MINS == 55    \* run for 55 minutes then stop
INTERVAL_MS == 120000       \* 2 minutes
LoopMinWait == 1000         \* Math.max(1000, INTERVAL_MS - elapsed)
maxRetries == 5             \* handleRateLimit: const maxRetries = 5
BackoffUnit == 1000         \* Math.pow(2, retryCount) * 1000
AllBusyWait == 5000         \* const waitTime = 5000 when no key is available
MaxBusyWaits == 10          \* if (retryCount > 10) throw
CooldownUnit == 2000        \* Math.pow(2, retryCount) * 2000

\* ------------------------------------------------------------ environment
Latency == LatencySteps * PaceDelay    \* a non-zero time between request and response
Latencies == {Latency}
IdleGap == MaxWait                     \* time the caller spends between two calls
Responses == {200, 401, 429, 500, 0}   \* 0: no response (network error, timeout)

VARIABLES
  \* module state of api-client.js / rate-limiter.js
  blacklistedKeys,    \* Set of keys that answered 401
  rateLimitedKeys,    \* Map key -> cooldown expiration time (0 = no entry)
  currentKeyIndex,    \* rotation cursor of getNextApiKey (0-based)
  \* one apiGet call
  apc,                \* position: idle, top, wait, request, spin, pace, done, thrown
  now,                \* const now = Date.now() of the current loop iteration
  availableKeys,      \* the filtered list of the current loop iteration
  apiKey,             \* the key of the request in flight
  waitTime,           \* the computed all-keys-unavailable wait
  retryCount,
  authRetryCount,
  error,              \* the error the call threw ("none" when it did not)
  \* environment and history
  clock,              \* Date.now()
  status,             \* status of the last response (0 = no response / network error)
  callId,             \* number of apiGet calls started so far
  recvAt,             \* key -> time its last 429 was received (-1 = never)
  waits,              \* consecutive all-keys-unavailable waits of this call
  selLog              \* the last NumKeys calls of getNextApiKey: <<list, key, cursor before>>

VARIABLES
  \* one fetchAllPages call
  fpc,                \* position: idle, await, done, thrown
  page,
  hasMore,
  allData,
  \* environment
  feed,               \* what fetchFunction answers during this call: "any"
                      \* response, or a "full" page on every call
  \* history
  callLog,            \* the params of the fetchFunction calls made so far
  respLog             \* the responses fetchFunction returned so far

pagesVars == <<fpc, page, hasMore, allData, feed, callLog, respLog>>

VARIABLES
  \* the durable store and one batchWriteToFirestore call
  store,              \* document id -> [exists, data] of the collection
  wpc,                \* position: idle, chunk, commit, done, thrown
  wdocs,              \* documents: list of [id, data]
  wmerge,             \* merge
  wcheck,             \* checkBeforeWrite
  wi,                 \* i, the offset of the current chunk
  snapshots,          \* result of db.getAll for the current chunk
  staged,             \* the writes staged in the current batch
  batchCount,
  totalUpdated,
  totalSkipped,
  \* history
  readOk,             \* the last db.getAll succeeded
  wrepeat             \* this call repeats the documents of the call before it,
                      \* which succeeded, both with the default options

writerVars == <<store, wpc, wdocs, wmerge, wcheck, wi, snapshots, staged,
                batchCount, totalUpdated, totalSkipped, readOk, wrepeat>>

VARIABLES
  \* one sync() call
  mode,               \* options.mode or the command-line flag
  cache,              \* options.cache: cacheKey -> the documents last handled
  events,             \* the list the per-event loop runs over
  evi,                \* i, the loop index (1-based)
  spc,                \* position: the await the call is suspended at
  divisions,          \* extractDivisions(eventDetails)
  dvi,                \* index of the current division
  listDocs,               \* the document list the current await was handed
  lastProcessedId,
  \* the live loop
  lpc,                \* position of runLoop: none, cycle, between, exited
  \* environment
  keysLeft,           \* api-client: some configured key is not blacklisted
  fs,                 \* durable store: event id -> what is stored for it
  rtdb,               \* low-latency store: slot -> record id -> content
  season,             \* the list scrapeEvents returned to this call
  \* history
  failedAt,           \* index of the first event whose processing threw
  fatalAt,            \* index of the first event in which the fetcher threw
                      \* for lack of a usable key or after its 429 retries
  cause,              \* what made sync() reject
  skipRead,           \* outcome of the existence read for the current event
  handled,            \* slot -> the list this cycle fetched for it
  prev,               \* slot -> the list the cycle before fetched for it
  progress,           \* durable store: the document /sync/progress
  lastDone,           \* index of the last event of this run whose pipeline
                      \* ran to its end
  failedIds,          \* ids of the events whose processing threw in the
                      \* first run
  rerun               \* this is the run that follows the first one

syncVars == <<mode, cache, events, evi, spc, divisions, dvi, listDocs,
              lastProcessedId, lpc, keysLeft, fs, rtdb, season,
              failedAt, fatalAt, cause, skipRead, handled, prev,
              progress, lastDone, failedIds, rerun>>

apiVars == <<blacklistedKeys, rateLimitedKeys, currentKeyIndex, apc, now,
             availableKeys, apiKey, waitTime, retryCount, authRetryCount,
             error, clock, status, callId, recvAt, waits, selLog>>

VARIABLES
  \* runLoop of scripts/live-loop.js, with its clock
  rpc,                \* position: new, while, cycle, sleep, exited
  dateNow,            \* Date.now()
  startTime,
  endTime,
  cycleStart,
  elapsed,
  loopWait,           \* waitTime of runLoop
  \* history
  prevStart,          \* cycleStart of the cycle before the current one
  lastEnd,            \* Date.now() when the last cycle settled
  cycleFailed,        \* the last cycle threw
  prevFailed          \* the cycle before the last one threw

loopVars == <<rpc, dateNow, startTime, endTime, cycleStart, elapsed, loopWait,
              prevStart, lastEnd, cycleFailed, prevFailed>>

vars == <<apiVars, writerVars, pagesVars, syncVars, loopVars>>

\* ------------------------------------------------------------- helpers
Min(a, b) == IF a < b THEN a ELSE b
Max(a, b) == IF a > b THEN a ELSE b
MinOf(S) == CHOOSE x \in S : \A y \in S : x <= y

LastN(s, n) == IF Len(s) <= n THEN s ELSE SubSeq(s, Len(s) - n + 1, Len(s))

\* ------------------------------------------------------------ key pool
Undefined == 0                              \* apiKeys[i] past the end of the list
allApiKeys == [i \in 1..NumKeys |-> i]      \* getApiKeys(): the configured keys
KeyVals == 0..NumKeys

\* rate-limiter.js getNextApiKey: the bounds reset
ResetIndex(apiKeys, idx) == IF idx >= Len(apiKeys) THEN 0 ELSE idx

NextKey_NoReset(apiKeys, idx) ==
  IF idx < Len(apiKeys) THEN apiKeys[idx + 1] ELSE Undefined

\* rate-limiter.js getNextApiKey: const key = apiKeys[currentKeyIndex]
NextKey(apiKeys, idx) == apiKeys[ResetIndex(apiKeys, idx) + 1]

NextIndex_NoAdvance(apiKeys, idx) == ResetIndex(apiKeys, idx)

\* rate-limiter.js getNextApiKey: currentKeyIndex = (currentKeyIndex + 1) % length
NextIndex(apiKeys, idx) == (ResetIndex(apiKeys, idx) + 1) % Len(apiKeys)

\* api-client.js: the filter predicate of availableKeys
CoolingDown(k, t) == rateLimitedKeys[k] # 0 /\ t < rateLimitedKeys[k]

Usable_IgnoreBlacklist(k, t) == ~CoolingDown(k, t)

Usable(k, t) == k \notin blacklistedKeys /\ ~CoolingDown(k, t)

\* api-client.js: allApiKeys.filter(...)
AvailableKeys(t) == LET keep(k) == Usable(k, t) IN SelectSeq(allApiKeys, keep)

\* api-client.js: the wait when no key is available
WaitTime(t) ==
  LET all == {rateLimitedKeys[allApiKeys[i]] : i \in 1..NumKeys}
      cooldowns == {c \in all : c # 0 /\ c > t}
      nextAvailableAt == IF cooldowns # {} THEN MinOf(cooldowns) ELSE t + DefaultWait
  IN Max(MinWait, Min(nextAvailableAt - t, MaxWait))

\* ------------------------------------------------------------ apiGet
ApiInit ==
  /\ blacklistedKeys = {}
  /\ rateLimitedKeys = [k \in KeyVals |-> 0]
  /\ currentKeyIndex = 0
  /\ apc = "idle"
  /\ now = 0
  /\ availableKeys = <<>>
  /\ apiKey = Undefined
  /\ waitTime = 0
  /\ retryCount = 0
  /\ authRetryCount = 0
  /\ error = "none"
  /\ clock = 0
  /\ status = 0
  /\ callId = 0
  /\ recvAt = [k \in KeyVals |-> -1]
  /\ waits = 0
  /\ selLog = <<>>

\* apiGet(endpoint, params): entry, up to the first loop iteration
ApiGetStart ==
  /\ apc \in {"idle", "done", "thrown"}
  /\ callId < MaxCalls
  /\ callId' = callId + 1
  /\ apc' = "top"
  /\ retryCount' = 0
  /\ authRetryCount' = 0
  /\ error' = "none"
  /\ waits' = 0
  /\ UNCHANGED <<blacklistedKeys, rateLimitedKeys, currentKeyIndex, now,
                 availableKeys, apiKey, waitTime, clock, status, recvAt, selLog>>
  /\ UNCHANGED <<writerVars, pagesVars, syncVars, loopVars>>

\* the caller works between two calls of apiGet
Elapse ==
  /\ apc \in {"idle", "done", "thrown"}
  /\ clock + IdleGap <= MaxClock
  /\ clock' = clock + IdleGap
  /\ UNCHANGED <<blacklistedKeys, rateLimitedKeys, currentKeyIndex, apc, now,
                 availableKeys, apiKey, waitTime, retryCount, authRetryCount,
                 error, status, callId, recvAt, waits, selLog>>
  /\ UNCHANGED <<writerVars, pagesVars, syncVars, loopVars>>

\* loop head: now, availableKeys, then either the wait or the request
LoopTop ==
  /\ apc = "top"
  /\ now' = clock
  /\ availableKeys' = AvailableKeys(clock)
  /\ IF Len(availableKeys') = 0
       THEN /\ waitTime' = WaitTime(clock)
            /\ apc' = "wait"
            /\ UNCHANGED <<apiKey, currentKeyIndex, selLog>>
       ELSE /\ apiKey' = NextKey(availableKeys', currentKeyIndex)
            /\ currentKeyIndex' = NextIndex(availableKeys', currentKeyIndex)
            /\ selLog' = LastN(Append(selLog, <<availableKeys', apiKey', currentKeyIndex>>), NumKeys)
            /\ apc' = "request"
            /\ UNCHANGED waitTime
  /\ UNCHANGED <<blacklistedKeys, rateLimitedKeys, retryCount, authRetryCount,
                 error, clock, status, callId, recvAt, waits>>
  /\ UNCHANGED <<writerVars, pagesVars, syncVars, loopVars>>

\* await sleep(waitTime); continue
WaitAllUnavailable ==
  /\ apc = "wait"
  /\ clock + waitTime <= MaxClock
  /\ clock' = clock + waitTime
  /\ waits' = waits + 1
  /\ apc' = "top"
  /\ UNCHANGED <<blacklistedKeys, rateLimitedKeys, currentKeyIndex, now,
                 availableKeys, apiKey, waitTime, retryCount, authRetryCount,
                 error, status, callId, recvAt, selLog>>
  /\ UNCHANGED <<writerVars, pagesVars, syncVars, loopVars>>

\* try branch: the response is 2xx
OnSuccess ==
  /\ apc' = "pace"
  /\ waits' = 0
  /\ UNCHANGED <<blacklistedKeys, rateLimitedKeys, retryCount, authRetryCount,
                 error, recvAt>>

\* catch branch, error.response?.status === 401
OnUnauthorized ==
  /\ blacklistedKeys' = blacklistedKeys \cup {apiKey}
  /\ authRetryCount' = authRetryCount + 1
  /\ IF authRetryCount' > Len(allApiKeys)
       THEN apc' = "thrown" /\ error' = "AuthExhausted"
       ELSE apc' = "top" /\ error' = error
  /\ UNCHANGED <<rateLimitedKeys, retryCount, recvAt, waits>>

\* catch branch, error.response?.status === 429
OnRateLimited ==
  /\ rateLimitedKeys' = [rateLimitedKeys EXCEPT ![apiKey] = now + CooldownDuration]
  /\ recvAt' = [recvAt EXCEPT ![apiKey] = clock']
  /\ apc' = IF Len(availableKeys) <= 1 THEN "spin" ELSE "top"
  /\ UNCHANGED <<blacklistedKeys, retryCount, authRetryCount, error, waits>>

OnOtherError_AsRateLimit(st) ==
  /\ rateLimitedKeys' = [rateLimitedKeys EXCEPT ![apiKey] = now + CooldownDuration]
  /\ apc' = "top"
  /\ UNCHANGED <<blacklistedKeys, retryCount, authRetryCount, error, recvAt, waits>>

\* catch branch, throw error
OnOtherError(st) ==
  /\ apc' = "thrown"
  /\ error' = IF st = 0 THEN "network" ELSE "http"
  /\ UNCHANGED <<blacklistedKeys, rateLimitedKeys, retryCount, authRetryCount,
                 recvAt, waits>>

\* await axios.get(...): the response (or the failure) arrives
Response ==
  /\ apc = "request"
  /\ \E st \in Responses, lat \in Latencies :
       /\ clock + lat <= MaxClock
       /\ clock' = clock + lat
       /\ status' = st
       /\ CASE st = 200 -> OnSuccess
            [] st = 401 -> OnUnauthorized
            [] st = 429 -> OnRateLimited
            [] OTHER -> OnOtherError(st)
  /\ UNCHANGED <<currentKeyIndex, now, availableKeys, apiKey, waitTime,
                 callId, selLog>>
  /\ UNCHANGED <<writerVars, pagesVars, syncVars, loopVars>>

\* await sleep(2000) after a 429 with at most one available key; continue
Spin ==
  /\ apc = "spin"
  /\ clock + SpinDelay <= MaxClock
  /\ clock' = clock + SpinDelay
  /\ apc' = "top"
  /\ UNCHANGED <<blacklistedKeys, rateLimitedKeys, currentKeyIndex, now,
                 availableKeys, apiKey, waitTime, retryCount, authRetryCount,
                 error, status, callId, recvAt, waits, selLog>>
  /\ UNCHANGED <<writerVars, pagesVars, syncVars, loopVars>>

\* await sleep(500); retryCount = 0; return response
PaceAndReturn ==
  /\ apc = "pace"
  /\ clock + PaceDelay <= MaxClock
  /\ clock' = clock + PaceDelay
  /\ retryCount' = 0
  /\ apc' = "done"
  /\ UNCHANGED <<blacklistedKeys, rateLimitedKeys, currentKeyIndex, now,
                 availableKeys, apiKey, waitTime, authRetryCount,
                 error, status, callId, recvAt, waits, selLog>>
  /\ UNCHANGED <<writerVars, pagesVars, syncVars, loopVars>>

NextApi ==
  \/ ApiGetStart
  \/ Elapse
  \/ LoopTop
  \/ WaitAllUnavailable
  \/ Response
  \/ Spin
  \/ PaceAndReturn

\* ------------------------------------------------------------ apiGet with handleRateLimit
\* the rate-limiter.js that has handleRateLimit: getNextApiKey reads
\* apiKeys[currentKeyIndex] as the cursor stands
KeyAtCursor(apiKeys, idx) == IF idx < Len(apiKeys) THEN apiKeys[idx + 1] ELSE Undefined
CursorAfter(apiKeys, idx) == (idx + 1) % Len(apiKeys)

\* apiKeys.filter(k => !blacklistedKeys.has(k))
ValidKeys == LET keep(k) == k \notin blacklistedKeys IN SelectSeq(allApiKeys, keep)

BackoffDelay_Linear(n) == (n + 1) * BackoffUnit
\* handleRateLimit: const delay = Math.pow(2, retryCount) * 1000
BackoffDelay(n) == (2 ^ n) * BackoffUnit

\* loop head: validKeys, the throw when it is empty, getNextApiKey(validKeys)
ValidKeysTop ==
  /\ apc = "top"
  /\ now' = clock
  /\ availableKeys' = ValidKeys
  /\ IF Len(availableKeys') = 0
       THEN /\ apc' = "thrown"
            /\ error' = "AllKeysFailing"
            /\ UNCHANGED <<apiKey, currentKeyIndex, selLog>>
       ELSE /\ apiKey' = KeyAtCursor(availableKeys', currentKeyIndex)
            /\ currentKeyIndex' = CursorAfter(availableKeys', currentKeyIndex)
            /\ selLog' = LastN(Append(selLog, <<availableKeys', apiKey', currentKeyIndex>>), NumKeys)
            /\ apc' = "request"
            /\ error' = error
  /\ UNCHANGED <<blacklistedKeys, rateLimitedKeys, waitTime, retryCount, authRetryCount,
                 clock, status, callId, recvAt, waits>>
  /\ UNCHANGED <<writerVars, pagesVars, syncVars, loopVars>>

\* try branch: return response
OnReturn ==
  /\ apc' = "done"
  /\ UNCHANGED <<blacklistedKeys, rateLimitedKeys, retryCount, authRetryCount,
                 error, recvAt, waits>>

\* catch branch: handleRateLimit(error, retryCount) on a 429
HandleRateLimit ==
  /\ IF retryCount >= maxRetries
       THEN apc' = "thrown" /\ error' = "RateLimitExceeded" /\ waitTime' = waitTime
       ELSE apc' = "backoff" /\ error' = error /\ waitTime' = BackoffDelay(retryCount)
  /\ UNCHANGED <<blacklistedKeys, rateLimitedKeys, retryCount, authRetryCount,
                 recvAt, waits>>

\* await axios.get(...) of api-client.js settles
BackoffResponse ==
  /\ apc = "request"
  /\ \E st \in Responses, lat \in Latencies :
       /\ clock' = clock + lat
       /\ status' = st
       /\ CASE st = 200 -> OnReturn /\ waitTime' = waitTime
            [] st = 401 -> OnUnauthorized /\ waitTime' = waitTime
            [] st = 429 -> HandleRateLimit
            [] OTHER -> OnOtherError(st) /\ waitTime' = waitTime
  /\ UNCHANGED <<currentKeyIndex, now, availableKeys, apiKey, callId, selLog>>
  /\ UNCHANGED <<writerVars, pagesVars, syncVars, loopVars>>

\* await sleep(delay) is over: return true; retryCount++; continue
BackoffWake ==
  /\ apc = "backoff"
  /\ clock' = clock + waitTime
  /\ retryCount' = retryCount + 1
  /\ waits' = waits + 1
  /\ apc' = "top"
  /\ UNCHANGED <<blacklistedKeys, rateLimitedKeys, currentKeyIndex, now,
                 availableKeys, apiKey, waitTime, authRetryCount,
                 error, status, callId, recvAt, selLog>>
  /\ UNCHANGED <<writerVars, pagesVars, syncVars, loopVars>>

NextBackoff ==
  \/ ApiGetStart
  \/ ValidKeysTop
  \/ BackoffResponse
  \/ BackoffWake

\* ------------------------------------------------------------ apiGet with per-key cooldown
\* const cooldownTime = Math.pow(2, retryCount) * 2000
CooldownTime(n) == (2 ^ n) * CooldownUnit

\* loop head: now, availableKeys, then the 5 s wait or getNextApiKey (the one
\* without the bounds reset) and the request
CooldownTop ==
  /\ apc = "top"
  /\ now' = clock
  /\ availableKeys' = AvailableKeys(clock)
  /\ IF Len(availableKeys') = 0
       THEN /\ waitTime' = AllBusyWait
            /\ apc' = "wait"
            /\ UNCHANGED <<apiKey, currentKeyIndex, selLog>>
       ELSE /\ apiKey' = KeyAtCursor(availableKeys', currentKeyIndex)
            /\ currentKeyIndex' = CursorAfter(availableKeys', currentKeyIndex)
            /\ selLog' = LastN(Append(selLog, <<availableKeys', apiKey', currentKeyIndex>>), NumKeys)
            /\ apc' = "request"
            /\ UNCHANGED waitTime
  /\ UNCHANGED <<blacklistedKeys, rateLimitedKeys, retryCount, authRetryCount,
                 error, clock, status, callId, recvAt, waits>>
  /\ UNCHANGED <<writerVars, pagesVars, syncVars, loopVars>>

\* await sleep(waitTime); retryCount++; if (retryCount > 10) throw; continue
CooldownWait ==
  /\ apc = "wait"
  /\ clock + waitTime <= MaxClock
  /\ clock' = clock + waitTime
  /\ retryCount' = retryCount + 1
  /\ waits' = waits + 1
  /\ IF retryCount' > MaxBusyWaits
       THEN apc' = "thrown" /\ error' = "AllKeysBusy"
       ELSE apc' = "top" /\ error' = error
  /\ UNCHANGED <<blacklistedKeys, rateLimitedKeys, currentKeyIndex, now,
                 availableKeys, apiKey, waitTime, authRetryCount,
                 status, callId, recvAt, selLog>>
  /\ UNCHANGED <<writerVars, pagesVars, syncVars, loopVars>>

\* catch branch, 429: the key is put on cooldown, retryCount++, continue
OnRateLimitedRotate ==
  /\ rateLimitedKeys' = [rateLimitedKeys EXCEPT ![apiKey] = now + CooldownTime(retryCount)]
  /\ recvAt' = [recvAt EXCEPT ![apiKey] = clock']
  /\ retryCount' = retryCount + 1
  /\ apc' = "top"
  /\ UNCHANGED <<blacklistedKeys, authRetryCount, error, waits>>

\* await axios.get(...) settles
CooldownResponse ==
  /\ apc = "request"
  /\ \E st \in Responses, lat \in Latencies :
       /\ clock + lat <= MaxClock
       /\ clock' = clock + lat
       /\ status' = st
       /\ CASE st = 200 -> OnReturn
            [] st = 401 -> OnUnauthorized
            [] st = 429 -> OnRateLimitedRotate
            [] OTHER -> OnOtherError(st)
  /\ UNCHANGED <<currentKeyIndex, now, availableKeys, apiKey, waitTime, callId, selLog>>
  /\ UNCHANGED <<writerVars, pagesVars, syncVars, loopVars>>

NextCooldown ==
  \/ ApiGetStart
  \/ CooldownTop
  \/ CooldownWait
  \/ CooldownResponse

\* ------------------------------------------------------------ durable writer
DocIds == {"d1", "d2"}
Fields == {"a", "lastUpdated"}
ServerTimestamp == "ts"                 \* FieldValue.serverTimestamp()
Null == "null"
Undef == "undef"

\* the payloads the orchestrator hands over: JSON objects of the API
FieldVals(f) == IF f = "a" THEN {"v1", Null} ELSE {"v1"}
Payloads == UNION {{p \in [D -> {"v1", Null}] : \A f \in D : p[f] \in FieldVals(f)} :
                     D \in SUBSET Fields}
Records == [id : DocIds, data : Payloads]
DocLists == UNION {[1..n -> Records] : n \in 0..MaxDocs}

EmptyData == [f \in {} |-> Null]
NoDoc == [exists |-> FALSE, data |-> EmptyData]

\* cleanForComparison: JSON round trip whose replacer turns undefined into null
cleanForComparison(obj) ==
  [f \in DOMAIN obj |-> IF obj[f] = Undef THEN Null ELSE obj[f]]

\* deepEqual on two cleaned objects: same sorted keys, equal values
deepEqual(obj1, obj2) ==
  /\ DOMAIN obj1 = DOMAIN obj2
  /\ \A f \in DOMAIN obj1 :
       \/ obj1[f] = obj2[f]
       \/ (obj1[f] \in {Null, Undef} /\ obj2[f] \in {Null, Undef})

\* if (existingData.lastUpdated) delete existingData.lastUpdated
StripLastUpdated(data) == [f \in DOMAIN data \ {"lastUpdated"} |-> data[f]]

ShouldWrite_NoStrip(doc, snapshot, check) ==
  ~(check /\ snapshot.exists
          /\ deepEqual(cleanForComparison(snapshot.data),
                       cleanForComparison(doc.data)))

\* the body of chunk.forEach that decides shouldWrite
ShouldWrite(doc, snapshot, check) ==
  ~(check /\ snapshot.exists
          /\ deepEqual(cleanForComparison(StripLastUpdated(snapshot.data)),
                       cleanForComparison(doc.data)))

\* { ...data, lastUpdated: FieldValue.serverTimestamp() }
WithTimestamp(data) ==
  [f \in DOMAIN data \cup {"lastUpdated"} |->
     IF f = "lastUpdated" THEN ServerTimestamp ELSE data[f]]

\* batch.set(docRef, value, { merge }) applied to one stored document
SetDoc(old, value, merge) ==
  IF merge /\ old.exists
    THEN [exists |-> TRUE,
          data |-> [f \in DOMAIN old.data \cup DOMAIN value |->
                      IF f \in DOMAIN value THEN value[f] ELSE old.data[f]]]
    ELSE [exists |-> TRUE, data |-> value]

\* batch.commit(): the staged writes lo..hi take effect in staging order.
\* The range is halved so that a batch of BATCH_SIZE writes nests shallowly;
\* the first half is applied before the second is looked at (a commit
\* removes no document, which the test in between relies on).
RECURSIVE ApplyRange(_, _, _, _, _)
ApplyRange(st, writes, lo, hi, merge) ==
  IF lo > hi THEN st
  ELSE IF lo = hi
    THEN [st EXCEPT ![writes[lo].id] = SetDoc(@, writes[lo].value, merge)]
    ELSE LET mid == (lo + hi) \div 2
             half == ApplyRange(st, writes, lo, mid, merge)
         IN IF half[writes[mid].id].exists
              THEN ApplyRange(half, writes, mid + 1, hi, merge)
              ELSE half
ApplyBatch(st, writes, merge) == ApplyRange(st, writes, 1, Len(writes), merge)

Chunk_Overlong(docs, i) == SubSeq(docs, i + 1, Min(i + BATCH_SIZE + 1, Len(docs)))

\* documents.slice(i, i + BATCH_SIZE)
Chunk(docs, i) == SubSeq(docs, i + 1, Min(i + BATCH_SIZE, Len(docs)))

\* a collection that holds no document under any of the identities ids
WriterInitOver(ids) ==
  /\ store = [d \in ids |-> NoDoc]
  /\ wpc = "idle"
  /\ wdocs = <<>>
  /\ wmerge = TRUE
  /\ wcheck = TRUE
  /\ wi = 0
  /\ snapshots = <<>>
  /\ staged = <<>>
  /\ batchCount = 0
  /\ totalUpdated = 0
  /\ totalSkipped = 0
  /\ readOk = TRUE
  /\ wrepeat = FALSE
WriterInit == WriterInitOver(DocIds)

\* entry of batchWriteToFirestore, up to the first chunk
Enter(docs, merge, check) ==
  /\ wdocs' = docs
  /\ wmerge' = merge
  /\ wcheck' = check
  /\ wpc' = IF Len(docs) > 0 THEN "chunk" ELSE "done"
  /\ wi' = 0
  /\ totalUpdated' = 0
  /\ totalSkipped' = 0
  /\ snapshots' = <<>>
  /\ staged' = <<>>
  /\ batchCount' = 0
  /\ UNCHANGED <<store, readOk>>

\* batchWriteToFirestore(collectionPath, documents, merge, checkBeforeWrite)
WriteStart ==
  /\ wpc = "idle"
  /\ \E docs \in DocLists, merge \in BOOLEAN, check \in BOOLEAN :
       Enter(docs, merge, check)
  /\ wrepeat' = FALSE
  /\ UNCHANGED <<apiVars, pagesVars, syncVars, loopVars>>

\* the caller calls batchWriteToFirestore(collectionPath, documents) again
\* with the record list of the call that has just returned
WriteAgain ==
  /\ wpc = "done"
  /\ wmerge /\ wcheck
  /\ ~wrepeat
  /\ Enter(wdocs, TRUE, TRUE)
  /\ wrepeat' = TRUE
  /\ UNCHANGED <<apiVars, pagesVars, syncVars, loopVars>>

\* the call has returned totalUpdated or thrown; the caller goes on
WriteEnd ==
  /\ wpc \in {"done", "thrown"}
  /\ wpc' = "idle"
  /\ wdocs' = <<>>
  /\ snapshots' = <<>>
  /\ staged' = <<>>
  /\ batchCount' = 0
  /\ totalUpdated' = 0
  /\ totalSkipped' = 0
  /\ wi' = 0
  /\ wmerge' = TRUE
  /\ wcheck' = TRUE
  /\ readOk' = TRUE
  /\ wrepeat' = FALSE
  /\ UNCHANGED store
  /\ UNCHANGED <<apiVars, pagesVars, syncVars, loopVars>>

\* the end of one loop iteration: i += BATCH_SIZE, next chunk or return
NextChunk ==
  /\ wi' = wi + BATCH_SIZE
  /\ wpc' = IF wi' < Len(wdocs) THEN "chunk" ELSE "done"

\* one chunk: db.getAll (or its failure), then the staging of the batch;
\* the record at index j of the chunk is documents[i + j]
StageChunk ==
  /\ wpc = "chunk"
  /\ \E ok \in BOOLEAN :
       LET n == Len(Chunk(wdocs, wi))
           snap(j) == IF wcheck /\ ok THEN store[wdocs[wi + j].id] ELSE NoDoc
           write(j) == [id |-> wdocs[wi + j].id,
                        value |-> WithTimestamp(wdocs[wi + j].data),
                        index |-> wi + j]
           keep(w) == ShouldWrite(wdocs[w.index], snap(w.index - wi), wcheck)
       IN /\ (~wcheck => ok)
          /\ readOk' = ok
          /\ snapshots' = IF ~wcheck THEN <<>> ELSE [j \in 1..n |-> snap(j)]
          /\ staged' = SelectSeq([j \in 1..n |-> write(j)], keep)
          /\ batchCount' = Len(staged')
          /\ IF Len(staged') > 0
               THEN wpc' = "commit" /\ UNCHANGED <<wi, totalSkipped>>
               ELSE /\ totalSkipped' = totalSkipped + n
                    /\ NextChunk
  /\ UNCHANGED <<store, wdocs, wmerge, wcheck, totalUpdated, wrepeat>>
  /\ UNCHANGED <<apiVars, pagesVars, syncVars, loopVars>>

AfterCommitError_Retry == "commit"

\* catch (err) { console.error(...); throw err; }
AfterCommitError == "thrown"

\* await Promise.race([batch.commit(), timeoutPromise]): the commit succeeds,
\* or it fails, or the timeout wins the race; the race does not cancel the
\* commit, which may still take effect after the timeout
Commit ==
  /\ wpc = "commit"
  /\ \/ /\ store' = ApplyBatch(store, staged, wmerge)
        /\ totalUpdated' = totalUpdated + batchCount
        /\ totalSkipped' = totalSkipped + (Len(Chunk(wdocs, wi)) - batchCount)
        /\ NextChunk
     \/ /\ wpc' = AfterCommitError
        /\ store' \in {store, ApplyBatch(store, staged, wmerge)}
        /\ UNCHANGED <<totalUpdated, totalSkipped, wi>>
  /\ UNCHANGED <<wdocs, wmerge, wcheck, snapshots, staged, batchCount,
                 readOk, wrepeat>>
  /\ UNCHANGED <<apiVars, pagesVars, syncVars, loopVars>>

NextWriter ==
  \/ WriteStart
  \/ WriteAgain
  \/ WriteEnd
  \/ StageChunk
  \/ Commit

\* ---- record lists longer than one batch
\* the identities String(r.id) of the records of a long list
BulkCount == (MaxChunks - 1) * BATCH_SIZE + 1
BulkIds == {ToString(k) : k \in 1..BulkCount}
BulkLengths == {k * BATCH_SIZE + r : k \in 1..(MaxChunks - 1), r \in {0, 1}}
BulkDocs(n, v) == [k \in 1..n |-> [id |-> ToString(k), data |-> [a |-> v]]]
BulkLists == {BulkDocs(n, "v1") : n \in BulkLengths} \cup {BulkDocs(BATCH_SIZE + 1, Null)}

\* batchWriteToFirestore(collectionPath, documents) as the orchestrator calls
\* it, with a list of distinct identities that spans several chunks
WriteBulk ==
  /\ wpc = "idle"
  /\ \E docs \in BulkLists : Enter(docs, TRUE, TRUE)
  /\ wrepeat' = FALSE
  /\ UNCHANGED <<apiVars, pagesVars, syncVars, loopVars>>

NextBulk ==
  \/ WriteBulk
  \/ WriteEnd
  \/ StageChunk
  \/ Commit


\* ------------------------------------------------------------ paginated collector
\* what one fetchFunction call can return: a bare list, a wrapped
\* { data: [...] } object, or a single object that has no list
PageSizes == {0, 1, PartialPage, perPage}
\* A record list is kept as a sequence of runs: the run [page, first, last]
\* stands for the records first..last of that page, in order.
Run(p, a, b) == [page |-> p, first |-> a, last |-> b]
RecordsOfPage(p, n) == IF n = 0 THEN <<>> ELSE <<Run(p, 1, n)>>
SingleObject(p) == Run(p, 0, 0)
\* data.length of the list one page returned
Size(recs) == IF recs = <<>> THEN 0 ELSE recs[1].last - recs[1].first + 1
PageResponses(p) ==
  {[shape |-> sh, recs |-> RecordsOfPage(p, n)] :
      sh \in {"list", "wrapped"}, n \in PageSizes}
    \cup {[shape |-> "single", recs |-> <<SingleObject(p)>>]}
FullPage(p) == [shape |-> "list", recs |-> RecordsOfPage(p, perPage)]
Feeds == {"any", "full"}
\* the answers fetchFunction can give for page p under a feed
Answers(f, p) == IF f = "full" THEN {FullPage(p)} ELSE PageResponses(p)

HasMore_NonEmpty(n) == n > 0

\* hasMore = data.length === perPage
HasMore(n) == n = perPage

PagesInit ==
  /\ fpc = "idle"
  /\ page = 1
  /\ hasMore = TRUE
  /\ allData = <<>>
  /\ feed = "any"
  /\ callLog = <<>>
  /\ respLog = <<>>

\* params = { ...initialParams, per_page: perPage, page: page }
Params(p) == [per_page |-> perPage, page |-> p]

PastCeiling_Early(p) == p >= PageCeiling

\* if (page > 1000) break, evaluated after page++
PastCeiling(p) == p > PageCeiling

\* fetchAllPages(fetchFunction): entry, up to the first fetchFunction(params)
FetchAllStart ==
  /\ fpc \in {"idle", "done", "thrown"}
  /\ page' = 1
  /\ hasMore' = TRUE
  /\ allData' = <<>>
  /\ feed' \in Feeds
  /\ callLog' = <<Params(1)>>
  /\ respLog' = <<>>
  /\ fpc' = "await"
  /\ UNCHANGED <<apiVars, writerVars, syncVars, loopVars>>

\* the awaited page arrives: accumulate, page++, safety check, next call
PageArrives ==
  /\ fpc = "await"
  /\ \E r \in Answers(feed, page) :
       /\ respLog' = Append(respLog, r)
       /\ allData' = allData \o r.recs
       /\ hasMore' = IF r.shape = "single" THEN FALSE ELSE HasMore(Size(r.recs))
       /\ page' = page + 1
       /\ IF PastCeiling(page')
            THEN fpc' = "done" /\ UNCHANGED callLog
            ELSE IF hasMore'
              THEN /\ feed = "any" => page' <= MaxPages
                   /\ callLog' = Append(callLog, Params(page'))
                   /\ fpc' = "await"
              ELSE fpc' = "done" /\ UNCHANGED callLog
  /\ UNCHANGED feed
  /\ UNCHANGED <<apiVars, writerVars, syncVars, loopVars>>

\* fetchFunction throws: catch, log, throw error
PageFails ==
  /\ fpc = "await"
  /\ feed = "any"
  /\ fpc' = "thrown"
  /\ UNCHANGED <<page, hasMore, allData, feed, callLog, respLog>>
  /\ UNCHANGED <<apiVars, writerVars, syncVars, loopVars>>

NextPages ==
  \/ FetchAllStart
  \/ PageArrives
  \/ PageFails

\* ------------------------------------------------------------ orchestrator
\* Instants are counted in half days; 0 stands for a missing date field.
Today == 3                        \* the UTC day the run takes place on
DayLength == 2                    \* 24 * 60 * 60 * 1000 ms
NoDate == 0
Midnight(d) == DayLength * d
NowInstant == Midnight(Today) + 1     \* const now = new Date()

\* new Date(x).toISOString().split('T')[0]: the UTC calendar day of an instant
UtcDate(t) == t \div DayLength
\* event.start ? <UTC day> : '' ; the empty string sorts before every day
DateStr(t) == IF t = NoDate THEN 0 ELSE UtcDate(t)
todayStr == UtcDate(NowInstant)

Modes == {"full", "new", "live"}
EventIds == {"e1", "e2"}
DivIds == {1, 2}
Kinds == {"rankings", "matches"}
Slots == Kinds \X EventIds \X DivIds
NoId == "null"                    \* let lastProcessedId = null

\* the date ranges of the events of a season: long over, today, tomorrow,
\* no start date, no end date
Spans ==
  {<<Midnight(Today - 2), Midnight(Today - 2)>>,
   <<Midnight(Today), Midnight(Today)>>,
   <<Midnight(Today + 1), Midnight(Today + 1)>>,
   <<NoDate, Midnight(Today)>>,
   <<Midnight(Today), NoDate>>}
\* outside the live mode a date range matters only through the end date
SpansOf(m) ==
  IF m = "live" THEN Spans
  ELSE {sp \in Spans : sp[1] # NoDate /\ sp[2] # NoDate /\ sp[1] <= Midnight(Today)}
Event(id, sp) == [id |-> id, start |-> sp[1], end |-> sp[2]]
CliSeasons(m) ==
  {<<>>} \cup {<<Event("e1", a)>> : a \in SpansOf(m)}
         \cup {<<Event("e1", a), Event("e2", b)>> : a \in SpansOf(m), b \in SpansOf(m)}
LoopSeasons ==
  {<<Event("e1", <<Midnight(Today), Midnight(Today)>>)>>,
   <<Event("e1", <<Midnight(Today + 1), Midnight(Today + 1)>>)>>}

\* what the durable store holds for one event: the event document, a sample
\* of events/<id>/divisions/1/matches and the identity scheme of the first
\* document of events/<id>/divisions/1/finalistRankings
NotStored == [exists |-> FALSE, matches |-> FALSE, fin |-> "none"]
Stored(m, f) == [exists |-> TRUE, matches |-> m, fin |-> f]
StoreFamily ==
  {NotStored, Stored(FALSE, "none"), Stored(TRUE, "numeric"), Stored(FALSE, "team_")}

\* the record lists the API answers with
RecA1 == [id |-> "1", team |-> "t1", score |-> "v1"]
RecB1 == [id |-> "1", team |-> "t1", score |-> "v2"]
RecN1 == [id |-> "1", team |-> "t1", score |-> "v1", note |-> Null]
Rec2 == [id |-> "2", team |-> "t2", score |-> "v1"]
RecT == [team |-> "t1", score |-> "v1"]
ListA == <<RecA1, Rec2>>
ListB == <<RecB1, Rec2>>
ListN == <<RecN1, Rec2>>
ListT == <<RecT>>

\* String(r.id || `team_${r.team?.id || r.team}`)
DocIdOf(r) ==
  IF "id" \in DOMAIN r /\ r.id \notin {Null, Undef}
    THEN <<"", r.id>> ELSE <<"team_", r.team>>
\* list.map(r => ({ id: ..., data: r }))
DocsOf(list) == [k \in 1..Len(list) |-> [id |-> DocIdOf(list[k]), data |-> list[k]]]
\* the scheme of the first of a set of document ids in document-id order
\* (digits sort before "t")
SampleScheme(old, ds) ==
  IF old = "numeric" \/ \E k \in 1..Len(ds) : ds[k].id[1] = "" THEN "numeric"
  ELSE IF old = "team_" \/ ds # <<>> THEN "team_" ELSE "none"

\* stripNulls on an object: keys whose value is null or undefined are dropped
stripNulls(obj) ==
  [f \in {g \in DOMAIN obj : obj[g] \notin {Null, Undef}} |-> obj[f]]
\* stripNulls on a document list: Array.map over { id, data }
StripDocs(ds) == [k \in 1..Len(ds) |-> [id |-> ds[k].id, data |-> stripNulls(ds[k].data)]]
\* JSON.parse(JSON.stringify(x)): object keys holding undefined are dropped
JsonClone(ds) ==
  [k \in 1..Len(ds) |->
     [id |-> ds[k].id,
      data |-> [f \in {g \in DOMAIN ds[k].data : ds[k].data[g] # Undef} |-> ds[k].data[f]]]]

NoEntry == [has |-> FALSE, docs |-> <<>>]          \* cache[cacheKey] === undefined
Entry(ds) == [has |-> TRUE, docs |-> ds]
DeepEqualDocs_Never(entry, ds) == FALSE

\* deepEqual(cache[cacheKey], cleanDocs) on two document arrays
DeepEqualDocs(entry, ds) ==
  /\ entry.has
  /\ Len(entry.docs) = Len(ds)
  /\ \A k \in 1..Len(ds) :
       /\ entry.docs[k].id = ds[k].id
       /\ deepEqual(entry.docs[k].data, ds[k].data)

\* rtdb.ref().update(updates): each record node is replaced by
\* { ...doc.data, lastUpdated }; a null value stores no key. The content of a
\* node is kept without its lastUpdated stamp.
Node(doc) == [id |-> doc.id, data |-> stripNulls(doc.data)]
RtdbUpdate_Replace(old, ds) == {Node(ds[k]) : k \in 1..Len(ds)}

\* a multi-path update: the nodes named in updates are replaced, every other
\* node under the path stays
RtdbUpdate(old, ds) ==
  {x \in old : \A k \in 1..Len(ds) : ds[k].id # x.id} \cup {Node(ds[k]) : k \in 1..Len(ds)}

\* what the environment hands to a call made from the command line, and to
\* the cycles of a live loop
InLoop == lpc # "none"
\* the listing of a season does not change between a run and the next
Seasons ==
  IF InLoop THEN LoopSeasons ELSE IF rerun THEN {season} ELSE CliSeasons(mode)
DivisionLists == IF InLoop THEN {<<>>, <<1>>} ELSE {<<>>, <<1>>, <<1, 2>>}
FetchLists(pos) ==
  IF InLoop
    THEN (IF pos = "rankings" THEN {<<>>, ListA, ListB, ListN, ListT}
          ELSE {<<>>, ListA, ListB})
  ELSE IF pos = "finalists" THEN {<<>>, ListA, ListT} ELSE {<<>>, ListA}
FetchErrors == IF keysLeft THEN {"error", "noKey", "rateLimit"} ELSE {"noKey"}

\* /sync/progress: { mode, lastProcessedEvent, timestamp, lastUpdated }
NoProgress == [mode |-> "none", lastProcessedEvent |-> NoId]
Checkpoint(m, id) == [mode |-> m, lastProcessedEvent |-> id]
NotFetched == [got |-> FALSE, list |-> <<>>]
Fetched(l) == [got |-> TRUE, list |-> l]
EmptyCache == [s \in Slots |-> NoEntry]

IsLive_StartOnly(ev) == todayStr >= DateStr(ev.start)

\* return todayStr >= start && todayStr <= end
IsLive(ev) == todayStr >= DateStr(ev.start) /\ todayStr <= DateStr(ev.end)
\* events.filter(...) in live mode
Filtered(m, evs) == IF m = "live" THEN SelectSeq(evs, IsLive) ELSE evs
\* eventEndDate && (now.getTime() - eventEndDate.getTime() > 24 * 60 * 60 * 1000)
IsPastEvent(ev) == ev.end # NoDate /\ NowInstant - ev.end > DayLength

eventId == events[evi].id
divId == divisions[dvi]
KindAt(p) == IF p \in {"rankings", "rankWrite", "rankPublish"} THEN "rankings" ELSE "matches"
Slot == <<KindAt(spc), eventId, divId>>

\* scrapeEventFinalistRankings(eventId, 1): the divisions whose finalist
\* rankings the processing of one event fetches and stores
FinalistDivisions == {1}
FetchPositions == {"details", "rankings", "matches", "teams", "skills", "finalists"}
WritePositions == {"meta", "divWrite", "rankWrite", "matchWrite",
                   "teamsWrite", "skillsWrite", "finWrite"}
PublishPositions == {"rankPublish", "matchPublish"}
SkipPositions == {"skipDoc", "skipMatches"}

\* ---- where control suspends next
\* the for header with index i: the first await of iteration i, or the
\* statement after the loop
Header(evs, i, m, lp) ==
  [evi |-> i, dvi |-> 0, divs |-> <<>>, lp |-> lp,
   spc |-> IF i > Len(evs) THEN (IF lp # NoId THEN "progress" ELSE "done")
           ELSE IF m # "live" THEN "skipDoc" ELSE "details"]
Stay(p) ==
  [evi |-> evi, dvi |-> dvi, divs |-> divisions, lp |-> lastProcessedId, spc |-> p]
\* `continue`, and the end of the catch block of one event
Continue_Abort ==
  [evi |-> evi, dvi |-> 0, divs |-> <<>>, lp |-> lastProcessedId, spc |-> "failed"]
Continue == Header(events, evi + 1, mode, lastProcessedId)
EndOfEvent_KeepsId == Header(events, evi + 1, mode, lastProcessedId)

\* lastProcessedId = eventId at the end of the try block
EndOfEvent == Header(events, evi + 1, mode, eventId)
AfterDivisions_Always == [Stay("teams") EXCEPT !.dvi = 0]

\* if (mode !== 'live') { teams, skills, finalists } ; lastProcessedId = eventId
AfterDivisions ==
  IF mode # "live" THEN [Stay("teams") EXCEPT !.dvi = 0] ELSE EndOfEvent
Division_LastFirst(dl, k) ==
  IF k > Len(dl) THEN [AfterDivisions EXCEPT !.divs = dl]
  ELSE [evi |-> evi, dvi |-> Len(dl), divs |-> dl, lp |-> lastProcessedId, spc |-> "rankings"]

\* for (const division of divisions): the body for the k-th division, or
\* what follows the loop
Division(dl, k) ==
  IF k > Len(dl) THEN [AfterDivisions EXCEPT !.divs = dl]
  ELSE [evi |-> evi, dvi |-> k, divs |-> dl, lp |-> lastProcessedId, spc |-> "rankings"]
AfterList(kind) ==
  IF kind = "rankings" THEN Stay("matches") ELSE Division(divisions, dvi + 1)

AfterExistenceRead_NoSkip(there) == Stay("meta")

\* if (doc.exists) { if (mode === 'new') continue; ... if (isPastEvent) ... }
AfterExistenceRead(there) ==
  IF ~there THEN Stay("meta")
  ELSE IF mode = "new" THEN Continue
  ELSE Stay(IF IsPastEvent(events[evi]) THEN "skipMatches" ELSE "meta")

AfterFailedRead_Skips == Continue

\* catch (e) { /* If check fails, just proceed */ }
AfterFailedRead == Stay("meta")

AfterPublish_Throws(ok) == IF ok THEN AfterList(KindAt(spc)) ELSE Continue

\* updateRealtimeDB catches the error of rtdb.ref().update and returns
AfterPublish(ok) == AfterList(KindAt(spc))
Move(pos) ==
  /\ evi' = pos.evi
  /\ dvi' = pos.dvi
  /\ divisions' = pos.divs
  /\ lastProcessedId' = pos.lp
  /\ spc' = pos.spc
\* control leaves the current event without an error having been thrown:
\* by a skip, or past the last statement of the try block
Goto(pos) ==
  /\ Move(pos)
  /\ skipRead' = IF pos.evi = evi THEN skipRead ELSE "none"
  /\ lastDone' = IF spc = "events" THEN 0
                 ELSE IF pos.evi = evi \/ spc \in SkipPositions THEN lastDone
                 ELSE evi
\* catch (error) { console.error(...) } of one event
Caught ==
  /\ failedAt' = IF failedAt = 0 THEN evi ELSE failedAt
  /\ failedIds' = IF rerun THEN failedIds ELSE failedIds \cup {eventId}
  /\ listDocs' = <<>>
  /\ Move(Continue)
  /\ skipRead' = "none"
  /\ UNCHANGED lastDone

\* options.mode || the command-line flag; the live mode never reads the
\* durable store, its runs start from the empty one
SyncInit(modes, family) ==
  /\ mode \in modes
  /\ cache = EmptyCache
  /\ events = <<>>
  /\ evi = 0
  /\ spc = "idle"
  /\ divisions = <<>>
  /\ dvi = 0
  /\ listDocs = <<>>
  /\ lastProcessedId = NoId
  /\ lpc = "none"
  /\ keysLeft = TRUE
  /\ fs \in [EventIds -> IF mode = "live" THEN {NotStored} ELSE family]
  /\ rtdb = [s \in Slots |-> {}]
  /\ season = <<>>
  /\ failedAt = 0
  /\ fatalAt = 0
  /\ cause = "none"
  /\ skipRead = "none"
  /\ handled = [s \in Slots |-> NotFetched]
  /\ prev = [s \in Slots |-> NotFetched]
  /\ progress = NoProgress
  /\ lastDone = 0
  /\ failedIds = {}
  /\ rerun = FALSE

\* node scripts/sync.js [--live | --new]: sync() with no options
SyncStart ==
  /\ spc = "idle" /\ lpc = "none"
  /\ cache' = EmptyCache
  /\ spc' = "events"
  /\ UNCHANGED <<mode, events, evi, divisions, dvi, listDocs, lastProcessedId, lpc, keysLeft,
                 fs, rtdb, season, failedAt, fatalAt, cause, skipRead, handled, prev>>
  /\ UNCHANGED <<progress, lastDone, failedIds, rerun>>
  /\ UNCHANGED <<apiVars, writerVars, pagesVars, loopVars>>

\* runLoop(): sessionCache = {}, then the first sync({ mode: 'live', cache })
LoopStart ==
  /\ spc = "idle" /\ lpc = "none"
  /\ mode = "live"
  /\ lpc' = "cycle"
  /\ cache' = EmptyCache
  /\ spc' = "events"
  /\ UNCHANGED <<mode, events, evi, divisions, dvi, listDocs, lastProcessedId, keysLeft,
                 fs, rtdb, season, failedAt, fatalAt, cause, skipRead, handled, prev>>
  /\ UNCHANGED <<progress, lastDone, failedIds, rerun>>
  /\ UNCHANGED <<apiVars, writerVars, pagesVars, loopVars>>

\* the awaited sync() settles (a rejection is caught and logged)
CycleEnd ==
  /\ lpc = "cycle" /\ spc \in {"done", "failed"}
  /\ lpc' = "between"
  /\ spc' = "idle"
  /\ UNCHANGED <<mode, cache, events, evi, divisions, dvi, listDocs, lastProcessedId,
                 keysLeft, fs, rtdb, season, failedAt, fatalAt, cause, skipRead,
                 handled, prev>>
  /\ UNCHANGED <<progress, lastDone, failedIds, rerun>>
  /\ UNCHANGED <<apiVars, writerVars, pagesVars, loopVars>>

\* while (Date.now() < endTime): the next sync({ mode: 'live', cache })
CycleStart ==
  /\ lpc = "between"
  /\ lpc' = "cycle"
  /\ spc' = "events"
  /\ prev' = handled
  /\ handled' = [s \in Slots |-> NotFetched]
  /\ failedAt' = 0 /\ fatalAt' = 0 /\ cause' = "none"
  /\ UNCHANGED <<mode, cache, events, evi, divisions, dvi, listDocs, lastProcessedId,
                 keysLeft, fs, rtdb, season, skipRead>>
  /\ lastDone' = 0 /\ failedIds' = {}
  /\ UNCHANGED <<progress, rerun>>
  /\ UNCHANGED <<apiVars, writerVars, pagesVars, loopVars>>

\* the loop duration is reached: process.exit(0)
LoopExit ==
  /\ lpc = "between"
  /\ lpc' = "exited"
  /\ UNCHANGED <<mode, cache, events, evi, spc, divisions, dvi, listDocs, lastProcessedId,
                 keysLeft, fs, rtdb, season, failedAt, fatalAt, cause, skipRead,
                 handled, prev>>
  /\ UNCHANGED <<progress, lastDone, failedIds, rerun>>
  /\ UNCHANGED <<apiVars, writerVars, pagesVars, loopVars>>

\* events = await scrapeEvents(targetSeasonId); the live filter; the first
\* iteration up to its first await
EventsArrive ==
  /\ spc = "events"
  /\ \E s \in Seasons :
       /\ season' = s
       /\ events' = Filtered(mode, s)
       /\ Goto(Header(Filtered(mode, s), 1, mode, NoId))
  /\ listDocs' = <<>>
  /\ UNCHANGED <<mode, cache, lpc, keysLeft, fs, rtdb, failedAt, fatalAt, cause,
                 handled, prev>>
  /\ UNCHANGED <<progress, failedIds, rerun>>
  /\ UNCHANGED <<apiVars, writerVars, pagesVars, loopVars>>

\* scrapeEvents throws: the outer catch logs and rethrows
EventsFail ==
  /\ spc = "events"
  /\ spc' = "failed"
  /\ cause' = "events"
  /\ UNCHANGED <<mode, cache, events, evi, divisions, dvi, listDocs, lastProcessedId, lpc,
                 keysLeft, fs, rtdb, season, failedAt, fatalAt, skipRead, handled, prev>>
  /\ UNCHANGED <<progress, lastDone, failedIds, rerun>>
  /\ UNCHANGED <<apiVars, writerVars, pagesVars, loopVars>>

\* doc = await db.collection('events').doc(eventId).get(), and the skip
\* decision up to the next await; a failed read is caught and ignored
SkipDocRead ==
  /\ spc = "skipDoc"
  /\ LET there == fs[eventId].exists IN
     \/ /\ Move(AfterExistenceRead(there))
        /\ skipRead' = IF AfterExistenceRead(there).evi # evi THEN "none"
                       ELSE IF there THEN "present" ELSE "absent"
     \/ /\ Move(AfterFailedRead)
        /\ skipRead' = IF there THEN "failedPresent" ELSE "failedAbsent"
  /\ UNCHANGED <<mode, cache, events, listDocs, lpc, keysLeft, fs, rtdb, season,
                 failedAt, fatalAt, cause, handled, prev>>
  /\ UNCHANGED <<progress, lastDone, failedIds, rerun>>
  /\ UNCHANGED <<apiVars, writerVars, pagesVars, loopVars>>

\* matchCheck = await db.collection(.../divisions/1/matches).limit(1).get()
SkipMatchesRead ==
  /\ spc = "skipMatches"
  /\ \/ IF fs[eventId].matches THEN Goto(Continue) ELSE Goto(Stay("meta"))
     \/ Move(AfterFailedRead) /\ skipRead' = "failedSample" /\ UNCHANGED lastDone
  /\ UNCHANGED <<mode, cache, events, listDocs, lpc, keysLeft, fs, rtdb, season,
                 failedAt, fatalAt, cause, handled, prev>>
  /\ UNCHANGED <<progress, failedIds, rerun>>
  /\ UNCHANGED <<apiVars, writerVars, pagesVars, loopVars>>

\* the durable write the call is suspended at succeeds
WriteOk ==
  /\ spc \in WritePositions
  /\ fs' = [fs EXCEPT ![eventId] =
             CASE spc = "meta" -> [@ EXCEPT !.exists = TRUE]
               [] spc = "matchWrite" /\ divId = 1 -> [@ EXCEPT !.matches = TRUE]
               [] spc = "finWrite" -> [@ EXCEPT !.fin = SampleScheme(@, listDocs)]
               [] OTHER -> @]
  /\ Goto(CASE spc = "meta" -> Stay("details")
            [] spc = "divWrite" -> Division(divisions, 1)
            [] spc = "rankWrite" -> AfterList("rankings")
            [] spc = "matchWrite" -> AfterList("matches")
            [] spc = "teamsWrite" -> Stay("skills")
            [] spc = "skillsWrite" -> Stay("finalists")
            [] spc = "finWrite" -> EndOfEvent)
  /\ listDocs' = <<>>
  /\ UNCHANGED <<mode, cache, events, lpc, keysLeft, rtdb, season,
                 failedAt, fatalAt, cause, handled, prev>>
  /\ UNCHANGED <<progress, failedIds, rerun>>
  /\ UNCHANGED <<apiVars, writerVars, pagesVars, loopVars>>

\* batchWriteToFirestore throws: the catch block of the event
WriteFails ==
  /\ spc \in WritePositions
  /\ Caught
  /\ UNCHANGED <<mode, cache, events, lpc, keysLeft, fs, rtdb, season,
                 fatalAt, cause, handled, prev>>
  /\ UNCHANGED <<progress, rerun>>
  /\ UNCHANGED <<apiVars, writerVars, pagesVars, loopVars>>

\* a scraper throws: an ordinary error, or the fetcher giving up because no
\* usable key is left or because its 429 retries are used up
FetchFails ==
  /\ spc \in FetchPositions
  /\ \E e \in FetchErrors :
       /\ keysLeft' = (keysLeft /\ e # "noKey")
       /\ fatalAt' = IF e # "error" /\ fatalAt = 0 THEN evi ELSE fatalAt
  /\ Caught
  /\ UNCHANGED <<mode, cache, events, lpc, fs, rtdb, season, cause, handled, prev>>
  /\ UNCHANGED <<progress, rerun>>
  /\ UNCHANGED <<apiVars, writerVars, pagesVars, loopVars>>

\* eventDetails = await scrapeEventDetails(eventId); extractDivisions
DetailsArrive ==
  /\ spc = "details" /\ keysLeft
  /\ \E dl \in DivisionLists :
       Goto(IF Len(dl) > 0 /\ mode # "live"
              THEN [Stay("divWrite") EXCEPT !.divs = dl]
              ELSE Division(dl, 1))
  /\ listDocs' = <<>>
  /\ UNCHANGED <<mode, cache, events, lpc, keysLeft, fs, rtdb, season,
                 failedAt, fatalAt, cause, handled, prev>>
  /\ UNCHANGED <<progress, failedIds, rerun>>
  /\ UNCHANGED <<apiVars, writerVars, pagesVars, loopVars>>

WritePosOf(p) ==
  CASE p = "rankings" -> "rankWrite" [] p = "matches" -> "matchWrite"
    [] p = "teams" -> "teamsWrite" [] p = "skills" -> "skillsWrite"
    [] p = "finalists" -> "finWrite"
PublishPosOf(p) == IF p = "rankings" THEN "rankPublish" ELSE "matchPublish"

\* rankings = await scrapeEventRankings(eventId, divId), resp. matches, and
\* what follows up to the next await
ListArrives ==
  /\ spc \in {"rankings", "matches"} /\ keysLeft
  /\ \E l \in FetchLists(spc) :
       /\ handled' = IF InLoop THEN [handled EXCEPT ![Slot] = Fetched(l)] ELSE handled
       /\ IF l = <<>>
            THEN Goto(AfterList(spc)) /\ listDocs' = <<>>
            ELSE IF mode # "live"
              THEN Goto(Stay(WritePosOf(spc))) /\ listDocs' = DocsOf(l)
              ELSE IF ~DeepEqualDocs(cache[Slot], StripDocs(DocsOf(l)))
                THEN Goto(Stay(PublishPosOf(spc))) /\ listDocs' = DocsOf(l)
                ELSE Goto(AfterList(spc)) /\ listDocs' = <<>>
  /\ UNCHANGED <<mode, cache, events, lpc, keysLeft, fs, rtdb, season,
                 failedAt, fatalAt, cause, prev>>
  /\ UNCHANGED <<progress, failedIds, rerun>>
  /\ UNCHANGED <<apiVars, writerVars, pagesVars, loopVars>>

\* await updateRealtimeDB(path, listDocs) returns, whether rtdb.ref().update
\* succeeded or threw; then cache[cacheKey] = JSON.parse(JSON.stringify(clean))
Publish ==
  /\ spc \in PublishPositions
  /\ \E ok \in BOOLEAN :
       /\ rtdb' = IF ok THEN [rtdb EXCEPT ![Slot] = RtdbUpdate(@, listDocs)] ELSE rtdb
       /\ Goto(AfterPublish(ok))
  /\ cache' = [cache EXCEPT ![Slot] = Entry(JsonClone(StripDocs(listDocs)))]
  /\ listDocs' = <<>>
  /\ UNCHANGED <<mode, events, lpc, keysLeft, fs, season,
                 failedAt, fatalAt, cause, handled, prev>>
  /\ UNCHANGED <<progress, failedIds, rerun>>
  /\ UNCHANGED <<apiVars, writerVars, pagesVars, loopVars>>

\* teams, skills and finalist rankings of the event arrive (full/new only)
TailArrives ==
  /\ spc \in {"teams", "skills", "finalists"} /\ keysLeft
  /\ \E l \in FetchLists(spc) :
       IF l = <<>>
         THEN /\ Goto(CASE spc = "teams" -> Stay("skills")
                        [] spc = "skills" -> Stay("finalists")
                        [] spc = "finalists" -> EndOfEvent)
              /\ listDocs' = <<>>
         ELSE Goto(Stay(WritePosOf(spc))) /\ listDocs' = DocsOf(l)
  /\ UNCHANGED <<mode, cache, events, lpc, keysLeft, fs, rtdb, season,
                 failedAt, fatalAt, cause, handled, prev>>
  /\ UNCHANGED <<progress, failedIds, rerun>>
  /\ UNCHANGED <<apiVars, writerVars, pagesVars, loopVars>>

\* await updateSyncProgress(...) after the loop
ProgressWrite ==
  /\ spc = "progress"
  /\ \/ /\ spc' = "done"
        /\ progress' = Checkpoint(mode, lastProcessedId)
        /\ UNCHANGED cause
     \/ spc' = "failed" /\ cause' = "progress" /\ UNCHANGED progress
  /\ UNCHANGED <<mode, cache, events, evi, divisions, dvi, listDocs, lastProcessedId, lpc,
                 keysLeft, fs, rtdb, season, failedAt, fatalAt, skipRead, handled, prev>>
  /\ UNCHANGED <<lastDone, failedIds, rerun>>
  /\ UNCHANGED <<apiVars, writerVars, pagesVars, loopVars>>

\* the flag of the run that follows: none (full) or --new
RerunModes == {"full", "new"}

\* node scripts/sync.js once more, in full or new mode, after a run that has
\* ended: a new process against the store the run before has left
SyncAgain ==
  /\ spc \in {"done", "failed"} /\ lpc = "none"
  /\ ~rerun
  /\ rerun' = TRUE
  /\ mode' \in RerunModes
  /\ cache' = EmptyCache
  /\ events' = <<>>
  /\ evi' = 0
  /\ spc' = "events"
  /\ divisions' = <<>>
  /\ dvi' = 0
  /\ listDocs' = <<>>
  /\ lastProcessedId' = NoId
  /\ keysLeft' = TRUE
  /\ failedAt' = 0 /\ fatalAt' = 0 /\ cause' = "none"
  /\ skipRead' = "none"
  /\ lastDone' = 0
  /\ UNCHANGED <<lpc, fs, rtdb, season, handled, prev, progress, failedIds>>
  /\ UNCHANGED <<apiVars, writerVars, pagesVars, loopVars>>

\* ------------------------------------------------------------ live loop timing
\* the time one live cycle takes, from its start to the moment it settles
CycleDurations == {k * (INTERVAL_MS \div 4) : k \in 1..DurationSteps}
\* setTimeout fires when the delay has passed, or later
TimerLates == {0, LoopMinWait}
NoTime == 0 - 1

LoopInit ==
  /\ rpc = "new"
  /\ dateNow = 0
  /\ startTime = NoTime
  /\ endTime = NoTime
  /\ cycleStart = NoTime
  /\ elapsed = 0
  /\ loopWait = 0
  /\ prevStart = NoTime
  /\ lastEnd = NoTime
  /\ cycleFailed = FALSE
  /\ prevFailed = FALSE

\* const startTime = Date.now(); const endTime = startTime + ...
RunLoop ==
  /\ rpc = "new"
  /\ startTime' = dateNow
  /\ endTime' = dateNow + (LOOP_DURATION_MINS * 60 * 1000)
  /\ rpc' = "while"
  /\ UNCHANGED <<dateNow, cycleStart, elapsed, loopWait, prevStart, lastEnd,
                 cycleFailed, prevFailed>>
  /\ UNCHANGED <<apiVars, writerVars, pagesVars, syncVars>>

BudgetLeft_Inclusive(t) == t <= endTime
\* while (Date.now() < endTime)
BudgetLeft(t) == t < endTime

\* the loop body is entered: const cycleStart = Date.now(), then sync starts
CycleBegins ==
  /\ rpc = "while"
  /\ BudgetLeft(dateNow)
  /\ cycleStart' = dateNow
  /\ prevStart' = cycleStart
  /\ rpc' = "cycle"
  /\ UNCHANGED <<dateNow, startTime, endTime, elapsed, loopWait, lastEnd,
                 cycleFailed, prevFailed>>
  /\ UNCHANGED <<apiVars, writerVars, pagesVars, syncVars>>

\* if (Date.now() + waitTime < endTime) { await new Promise(setTimeout) }
SleepNext(t, w) == IF t + w < endTime THEN "sleep" ELSE "while"

\* the sync of this cycle returns or throws (the catch only logs), then
\* elapsed and waitTime are computed and the sleep is entered or left out
CycleSettles ==
  /\ rpc = "cycle"
  /\ \E d \in CycleDurations, threw \in BOOLEAN :
       /\ dateNow' = dateNow + d
       /\ cycleFailed' = threw
       /\ prevFailed' = cycleFailed
       /\ lastEnd' = dateNow'
       /\ elapsed' = dateNow' - cycleStart
       /\ loopWait' = Max(LoopMinWait, INTERVAL_MS - elapsed')
       /\ rpc' = SleepNext(dateNow', loopWait')
  /\ UNCHANGED <<startTime, endTime, cycleStart, prevStart>>
  /\ UNCHANGED <<apiVars, writerVars, pagesVars, syncVars>>

\* the timer of the sleep fires
Wakes ==
  /\ rpc = "sleep"
  /\ \E late \in TimerLates : dateNow' = dateNow + loopWait + late
  /\ rpc' = "while"
  /\ UNCHANGED <<startTime, endTime, cycleStart, elapsed, loopWait, prevStart,
                 lastEnd, cycleFailed, prevFailed>>
  /\ UNCHANGED <<apiVars, writerVars, pagesVars, syncVars>>

\* the while test fails: process.exit(0)
LoopEnds ==
  /\ rpc = "while"
  /\ ~BudgetLeft(dateNow)
  /\ rpc' = "exited"
  /\ UNCHANGED <<dateNow, startTime, endTime, cycleStart, elapsed, loopWait,
                 prevStart, lastEnd, cycleFailed, prevFailed>>
  /\ UNCHANGED <<apiVars, writerVars, pagesVars, syncVars>>

NextLoop ==
  \/ RunLoop
  \/ CycleBegins
  \/ CycleSettles
  \/ Wakes
  \/ LoopEnds

NextSync ==
  \/ SyncStart
  \/ LoopStart
  \/ CycleEnd
  \/ CycleStart
  \/ LoopExit
  \/ EventsArrive
  \/ EventsFail
  \/ SkipDocRead
  \/ SkipMatchesRead
  \/ WriteOk
  \/ WriteFails
  \/ FetchFails
  \/ DetailsArrive
  \/ ListArrives
  \/ Publish
  \/ TailArrives
  \/ ProgressWrite

Init == ApiInit /\ WriterInit /\ PagesInit /\ SyncInit({"full"}, {NotStored}) /\ LoopInit

\* a run of the orchestrator against a store that earlier runs have filled
InitSync == ApiInit /\ WriterInit /\ PagesInit /\ SyncInit(Modes, StoreFamily) /\ LoopInit

SpecApi == Init /\ [][NextApi]_vars

SpecWriter == Init /\ [][NextWriter]_vars

SpecPages == Init /\ [][NextPages]_vars

SpecSync == InitSync /\ [][NextSync]_vars

\* a full run from the empty store, and the full run that follows it
NextRuns ==
  \/ SyncStart
  \/ SyncAgain
  \/ EventsArrive
  \/ EventsFail
  \/ SkipDocRead
  \/ SkipMatchesRead
  \/ WriteOk
  \/ WriteFails
  \/ FetchFails
  \/ DetailsArrive
  \/ ListArrives
  \/ TailArrives
  \/ ProgressWrite

SpecRuns == Init /\ [][NextRuns]_vars

\* the durable writer against a collection of many documents
InitBulk == ApiInit /\ WriterInitOver(BulkIds) /\ PagesInit /\ SyncInit({"full"}, {NotStored})
            /\ LoopInit

SpecBulk == InitBulk /\ [][NextBulk]_vars

\* apiGet of api-client.js with the backoff of handleRateLimit
SpecBackoff == Init /\ [][NextBackoff]_vars

\* apiGet with the per-key cooldown and the rotation without the bounds reset
SpecCooldown == Init /\ [][NextCooldown]_vars

\* the live loop by its clock
SpecLoop == Init /\ [][NextLoop]_vars

\* ------------------------------------------------------------ claims: fetcher
Range(s) == {s[i] : i \in 1..Len(s)}
Pos(list, k) == CHOOSE i \in 1..Len(list) : list[i] = k
CyclicSucc(list, k) == list[(Pos(list, k) % Len(list)) + 1]
AllBlacklisted == Range(allApiKeys) \subseteq blacklistedKeys

\* C3: when the eligible list has N elements and stays the same, any N
\* consecutive getNextApiKey calls return each of its keys exactly once, each
\* call returning the cyclic successor of the key returned before it.
C3_Rotation ==
  Len(selLog) >= 1 =>
    LET n == Len(selLog)
        list == selLog[n][1]
        N == Len(list)
        window == (n - N + 1)..n
    IN (n >= N /\ \A i \in window : selLog[i][1] = list) =>
         /\ {selLog[i][2] : i \in window} = Range(list)
         /\ \A i \in window : selLog[i][2] \in Range(list)
         /\ \A i \in window \ {n} : selLog[i + 1][2] = CyclicSucc(list, selLog[i][2])

\* a rotation over an unchanged list of at least two keys that wrapped around
\* the end of the list
C3_Witness ==
  /\ Len(selLog) >= 2
  /\ LET n == Len(selLog)
         list == selLog[n][1]
         N == Len(list)
     IN /\ N >= 2
        /\ n >= N
        /\ \A i \in (n - N + 1)..n : selLog[i][1] = list
        /\ selLog[n - N + 1][2] # list[1]

\* C4 (as claimed): a key whose 429 was received at time T is used for no
\* request before T + CooldownDuration and is eligible from exactly then on.
C4_CooldownFromReceipt ==
  /\ (apc = "request" /\ recvAt[apiKey] >= 0) =>
        now >= recvAt[apiKey] + CooldownDuration
  /\ \A k \in Range(allApiKeys) :
        (recvAt[k] >= 0 /\ k \notin blacklistedKeys) =>
           (Usable(k, clock) <=> clock >= recvAt[k] + CooldownDuration)

\* C5: the key of every request is a configured key that was neither
\* blacklisted nor cooling down at the moment of its selection.
C5_RequestKeyEligible ==
  apc = "request" =>
    /\ apiKey \in Range(allApiKeys)
    /\ apiKey \notin blacklistedKeys
    /\ ~CoolingDown(apiKey, now)

\* a request whose key was selected after the cursor pointed past the end of
\* a list shortened by blacklisting and by a cooldown
C5_Witness ==
  /\ apc = "request"
  /\ blacklistedKeys # {}
  /\ \E k \in Range(allApiKeys) \ blacklistedKeys : CoolingDown(k, now)
  /\ selLog[Len(selLog)][3] >= Len(availableKeys)

\* C6: the blacklist never shrinks, a key that answered 401 is in it, and no
\* request is issued with a blacklisted key.
C6_BlacklistPermanent ==
  [][/\ blacklistedKeys \subseteq blacklistedKeys'
     /\ (apc = "request" /\ apc' # "request" /\ status' = 401) =>
           apiKey \in blacklistedKeys'
     /\ (apc' = "request") => apiKey' \notin blacklistedKeys']_vars

\* a later call issues a request while a key is blacklisted
C6_Witness ==
  /\ apc = "request"
  /\ blacklistedKeys # {}
  /\ callId >= 2
  /\ authRetryCount = 0

\* C7 (as claimed): with every configured key blacklisted apiGet throws; it
\* does not wait, request or return.
C7_AuthExhaustedThrows ==
  AllBlacklisted =>
    /\ apc \notin {"wait", "request", "spin", "pace", "done"}
    /\ (apc = "thrown" => error = "AuthExhausted")

\* C8 (as claimed, for the bound WaitBudget): one call performs at most
\* WaitBudget consecutive all-keys-unavailable waits.
C8_BoundedWaits == waits <= WaitBudget

\* C9: an error other than 401 and 429 is rethrown as it is, ends the call
\* without a further request, and leaves blacklist and cooldown map alone.
C9_OtherErrorRethrown ==
  [][/\ (apc = "request" /\ apc' # "request" /\ status' \notin {200, 401, 429}) =>
           /\ apc' = "thrown"
           /\ error' = (IF status' = 0 THEN "network" ELSE "http")
           /\ blacklistedKeys' = blacklistedKeys
           /\ rateLimitedKeys' = rateLimitedKeys
     /\ (apc = "thrown" /\ callId' = callId) =>
           /\ apc' = "thrown"
           /\ error' = error
           /\ blacklistedKeys' = blacklistedKeys
           /\ rateLimitedKeys' = rateLimitedKeys]_vars

\* a call ended by a non-401/429 error while a key was cooling down and
\* another was blacklisted
C9_Witness ==
  /\ apc = "thrown"
  /\ error \in {"network", "http"}
  /\ blacklistedKeys # {}
  /\ \E k \in Range(allApiKeys) : rateLimitedKeys[k] # 0

\* ------------------------------------------------------------ claims: durable writer
StagedIndexes == {staged[n].index : n \in 1..Len(staged)}
DistinctIds(docs) ==
  \A i, j \in 1..Len(docs) : docs[i].id = docs[j].id => i = j
NoOwnTimestamp(docs) ==
  \A i \in 1..Len(docs) : "lastUpdated" \notin DOMAIN docs[i].data

\* the stored document and the payload agree on every field but lastUpdated
DiffersOnlyInLastUpdated(stored, payload) ==
  \A f \in (DOMAIN stored \cup DOMAIN payload) \ {"lastUpdated"} :
     f \in DOMAIN stored /\ f \in DOMAIN payload /\ stored[f] = payload[f]

\* C1 (as claimed, for record lists with distinct identities and no
\* lastUpdated field of their own, and a second call whose comparison read
\* succeeded): a call that repeats the record list of the successful call
\* just before it stages no write, issues no commit and returns 0.
C1_SecondCallWritesNothing ==
  (wrepeat /\ readOk /\ DistinctIds(wdocs) /\ NoOwnTimestamp(wdocs)) =>
     /\ wpc \notin {"commit", "thrown"}
     /\ batchCount = 0
     /\ totalUpdated = 0

\* the step that reads and stages the chunk at offset wi
StageStep == wpc = "chunk" /\ (wpc' # "chunk" \/ wi' # wi)

\* C2 (as claimed): a record whose stored document differs from its payload
\* only in lastUpdated is not staged and not counted.
C2_MetadataOnlySkipped ==
  [][StageStep =>
       \A j \in 1..Len(Chunk(wdocs, wi)) :
          LET doc == Chunk(wdocs, wi)[j]
          IN (store[doc.id].exists
                /\ DiffersOnlyInLastUpdated(store[doc.id].data, doc.data)) =>
               /\ (wi + j) \notin {staged'[n].index : n \in 1..Len(staged')}
               /\ batchCount' < Len(Chunk(wdocs, wi))]_vars

\* C2 (amended): with checkBeforeWrite on and a successful read of the
\* existing documents, a record without a lastUpdated field of its own whose
\* stored document differs from it only in lastUpdated is not staged and not
\* counted: batchCount counts exactly the staged writes.
C2_MetadataOnlySkippedWhenRead ==
  [][(StageStep /\ wcheck /\ readOk') =>
       /\ batchCount' = Len(staged')
       /\ \A j \in 1..Len(Chunk(wdocs, wi)) :
            LET doc == Chunk(wdocs, wi)[j]
            IN (store[doc.id].exists
                  /\ "lastUpdated" \notin DOMAIN doc.data
                  /\ DiffersOnlyInLastUpdated(store[doc.id].data, doc.data)) =>
                 /\ (wi + j) \notin {staged'[n].index : n \in 1..Len(staged')}
                 /\ batchCount' < Len(Chunk(wdocs, wi))]_vars

\* a batch about to be committed from which a record that differs from its
\* stored document only in lastUpdated was left out
C2_Witness ==
  /\ wpc = "commit"
  /\ wcheck /\ readOk
  /\ \E j \in 1..Len(Chunk(wdocs, wi)) :
       LET doc == Chunk(wdocs, wi)[j]
       IN /\ store[doc.id].exists
          /\ "lastUpdated" \notin DOMAIN doc.data
          /\ DiffersOnlyInLastUpdated(store[doc.id].data, doc.data)
          /\ (wi + j) \notin StagedIndexes

\* the value a document holds under a field; a null, an undefined and a
\* missing key all stand for no value
ValueOf(data, f) ==
  IF f \in DOMAIN data /\ data[f] \notin {Null, Undef} THEN data[f] ELSE Null
\* the stored document and the payload agree on every field but lastUpdated,
\* up to fields that hold no value on one side and are missing on the other
DiffersOnlyInNoValueFields(stored, payload) ==
  \A f \in (DOMAIN stored \cup DOMAIN payload) \ {"lastUpdated"} :
     ValueOf(stored, f) = ValueOf(payload, f)

\* C22 (with checkBeforeWrite on, a successful read of the existing
\* documents and a payload without a lastUpdated field of its own): a record
\* that differs from its stored document only in fields that are null or
\* undefined on one side and absent on the other is not staged and not
\* counted.
C22_NullAbsentSkipped ==
  [][(StageStep /\ wcheck /\ readOk') =>
       \A j \in 1..Len(Chunk(wdocs, wi)) :
          LET doc == Chunk(wdocs, wi)[j]
          IN (store[doc.id].exists
                /\ "lastUpdated" \notin DOMAIN doc.data
                /\ DiffersOnlyInNoValueFields(store[doc.id].data, doc.data)) =>
               /\ (wi + j) \notin {staged'[n].index : n \in 1..Len(staged')}
               /\ batchCount' < Len(Chunk(wdocs, wi))]_vars

\* ------------------------------------------------------------ claims: paginated collector
RECURSIVE Concat(_)
Concat(rs) == IF rs = <<>> THEN <<>> ELSE Head(rs).recs \o Concat(Tail(rs))

\* C10: the pages are requested in the order 1, 2, 3, ... with per_page = 250,
\* no page is requested after one that returned fewer than 250 records, and
\* the call that stops at such a page k has made exactly k calls and returns
\* the records of the pages 1..k in page order.
C10_PagesInOrder ==
  /\ \A i \in 1..Len(callLog) : callLog[i] = [per_page |-> 250, page |-> i]
  /\ \A i \in 1..Len(callLog) - 1 :
        i <= Len(respLog) /\ Size(respLog[i].recs) = 250
  /\ (fpc = "done" /\ page <= PageCeiling) =>
        LET k == Len(respLog)
        IN /\ k >= 1
           /\ Size(respLog[k].recs) < 250
           /\ Len(callLog) = k
           /\ allData = Concat(respLog)

\* page sizes [250, 250, 137]: 3 calls and 637 records
C10_Witness ==
  /\ fpc = "done"
  /\ Len(callLog) = 3
  /\ [i \in 1..3 |-> Size(respLog[i].recs)] = <<250, 250, 137>>
  /\ allData = <<Run(1, 1, 250), Run(2, 1, 250), Run(3, 1, 137)>>

\* C11: when fetchFunction answers a full 250-record page on every call, the
\* call never asks for page 1001, ends normally after exactly 1000 page calls
\* and returns the 250 records of each of the pages 1..1000, in page order.
C11_CeilingStop ==
  feed = "full" =>
    /\ fpc # "thrown"
    /\ \A i \in 1..Len(callLog) : callLog[i].page <= 1000
    /\ fpc = "await" => Len(respLog) < 1000
    /\ fpc = "done" =>
         /\ Len(callLog) = 1000
         /\ Len(respLog) = 1000
         /\ allData = [p \in 1..1000 |-> Run(p, 1, 250)]

C11_Witness ==
  /\ feed = "full"
  /\ fpc = "done"
  /\ Len(callLog) = 1000
  /\ callLog[1000] = [per_page |-> 250, page |-> 1000]

\* C23: when the body fetchFunction returns is an object that holds no
\* record list, fetchAllPages returns the empty list for that page: nothing
\* is collected from a response of that shape.
C23_MalformedYieldsNothing ==
  (fpc = "done" /\ respLog[Len(respLog)].shape = "single") =>
     \A k \in 1..Len(allData) : allData[k].page # Len(respLog)

\* ------------------------------------------------------------ claims: orchestrator
Processing == spc \in FetchPositions \cup WritePositions \cup PublishPositions

\* C12: an error thrown while one event is processed (a fetch or a durable
\* write, in any mode) never makes sync() fail: the loop moves on to the
\* next index, and it ends only after the last index.
C12_FailureIsolated ==
  /\ spc = "failed" => cause \in {"events", "progress"}
  /\ failedAt # 0 => evi > failedAt
  /\ spc \in {"progress", "done"} => evi = Len(events) + 1
  /\ (Processing \/ spc \in SkipPositions) => evi \in 1..Len(events)

\* the first of two events failed, the second was processed to its end
C12_Witness ==
  /\ spc = "done"
  /\ Len(events) = 2
  /\ failedAt = 1
  /\ lastProcessedId = events[2].id

\* C13: once the fetcher has thrown for lack of a usable key, or after its
\* 429 retries, inside the processing of an event, the run is over and has
\* failed: no later event is looked at, sync() does not resolve.
C13_ExhaustionFatal ==
  (lpc = "none" /\ fatalAt # 0) => spc = "failed"

\* the step that is the existence read of the current event, in new mode,
\* for an event whose document is in the events collection
NewModeReadOfStored == mode = "new" /\ spc = "skipDoc" /\ fs[eventId].exists
SkippedAtOnce ==
  /\ evi' = evi + 1
  /\ spc' \in {"skipDoc", "progress", "done"}
  /\ UNCHANGED <<fs, rtdb, cache, lastProcessedId, failedAt>>

\* C14: in new mode an event whose document exists in the events collection
\* is skipped at once: the loop goes to the next index without a request
\* and without a store write for that event.
C14_NewModeSkipsStored == [][NewModeReadOfStored => SkippedAtOnce]_vars

\* C14 (amended): the same, when the existence read succeeds.
C14_NewModeSkipsWhenRead ==
  [][(NewModeReadOfStored /\ skipRead' # "failedPresent") => SkippedAtOnce]_vars

\* a new-mode run over one stored event ended without processing it
C14_Witness ==
  /\ mode = "new"
  /\ spc = "done"
  /\ Len(events) = 1 /\ evi = 2
  /\ fs[events[1].id].exists
  /\ failedAt = 0 /\ lastProcessedId = NoId

FailedReads == {"failedPresent", "failedAbsent", "failedSample"}

\* C15: in full mode, with the reads of the skip decision succeeding, a
\* stored event whose finalist-ranking sample has a plain numeric identity is
\* re-processed, and one whose sample identity starts with "team_" is skipped.
C15_FinalistSampleDecides ==
  [][(/\ mode = "full"
      /\ spc \in SkipPositions
      /\ fs[eventId].exists
      /\ skipRead' \notin FailedReads)
     => /\ fs[eventId].fin = "numeric" => evi' = evi
        /\ fs[eventId].fin = "team_" => spc' # "meta"]_vars

\* today lies within [start date, end date], both taken as UTC days
InRange(ev) ==
  /\ ev.start # NoDate /\ ev.end # NoDate
  /\ UtcDate(ev.start) <= todayStr /\ todayStr <= UtcDate(ev.end)
\* today is not after the end date, and not before the start date if any
NotOverNotAhead(ev) ==
  /\ ev.end # NoDate /\ todayStr <= UtcDate(ev.end)
  /\ ev.start # NoDate => UtcDate(ev.start) <= todayStr
LoopEntered == spc \notin {"idle", "events", "failed"} \/ cause = "progress"

C17_LiveTouchesOnlyRankingsAndMatches ==
  mode = "live" =>
    /\ spc \in FetchPositions => spc \in {"details", "rankings", "matches"}
    /\ spc \notin {"meta", "divWrite", "teamsWrite", "skillsWrite", "finWrite"}
    /\ \A e \in EventIds : fs[e] = NotStored

\* a live run that handled the matches of an event and ended
C17_Witness ==
  /\ mode = "live"
  /\ spc = "done"
  /\ lastProcessedId # NoId
  /\ cache[<<"matches", lastProcessedId, 1>>].has

\* C18: every record the publisher is handed in live mode differs in content
\* from what the low-latency store holds for its identity (a record that did
\* not change since it was last published is not written again, even when
\* another record of its division changed).
C18_OnlyChangedRecordsWritten ==
  spc \in PublishPositions =>
    \A k \in 1..Len(listDocs) : Node(listDocs[k]) \notin rtdb[Slot]

\* the list this cycle fetched for the slot equals, nulls stripped, the list
\* the previous cycle fetched for it
SameAsPreviousCycle(s, h) ==
  /\ h[s].got /\ prev[s].got
  /\ StripDocs(DocsOf(h[s].list)) = StripDocs(DocsOf(prev[s].list))

\* C19: within one live loop, when a cycle fetches for an (event, division) a
\* rankings or matches list equal, nulls stripped, to the list the previous
\* cycle handled for it, the publisher is not called for that list; and the
\* cache is carried unchanged from the end of a cycle into the next one.
C19_CrossCycleSuppression ==
  [][/\ (lpc = "cycle" /\ spc \in {"rankings", "matches"}
          /\ handled'[Slot] # handled[Slot] /\ SameAsPreviousCycle(Slot, handled'))
        => spc' \notin PublishPositions
     /\ (InLoop /\ lpc' # lpc) => cache' = cache]_vars
C19_Witness ==
  /\ lpc = "cycle" /\ spc = "matches" /\ dvi = 1 /\ eventId = "e1"
  /\ prev[<<"rankings", "e1", 1>>] = Fetched(ListA)
  /\ handled[<<"rankings", "e1", 1>>] = Fetched(ListN)
  /\ cache[<<"rankings", "e1", 1>>] = Entry(JsonClone(StripDocs(DocsOf(ListA))))

\* C20: when the write to the low-latency store fails, updateRealtimeDB
\* returns normally: the event is not marked failed, and control goes on to
\* the matches of the same division after a rankings publish, and after a
\* matches publish to the next division or, past the last one, to the end
\* of the event (recorded as processed) and the next event.
C20_PublishBestEffort ==
  [][(spc \in PublishPositions /\ rtdb' = rtdb) =>
       /\ failedAt' = failedAt /\ cause' = cause
       /\ spc = "rankPublish" =>
            /\ spc' = "matches" /\ evi' = evi /\ dvi' = dvi /\ divisions' = divisions
       /\ (spc = "matchPublish" /\ dvi < Len(divisions)) =>
            /\ spc' = "rankings" /\ evi' = evi /\ dvi' = dvi + 1 /\ divisions' = divisions
       /\ (spc = "matchPublish" /\ dvi = Len(divisions)) =>
            /\ lastProcessedId' = eventId
            /\ evi' = evi + 1
            /\ spc' = IF evi < Len(events) THEN "details" ELSE "progress"]_vars
C20_Witness ==
  /\ mode = "live" /\ lpc = "none" /\ spc = "done" /\ failedAt = 0
  /\ Len(events) = 2 /\ lastProcessedId = events[2].id
  /\ rtdb[<<"rankings", events[1].id, 1>>] = {}
  /\ cache[<<"rankings", events[1].id, 1>>].has
  /\ rtdb[<<"matches", events[1].id, 1>>] # {}
  /\ rtdb[<<"matches", events[1].id, 2>>] # {}
  /\ rtdb[<<"matches", events[2].id, 1>>] # {}

\* ------------------------------------------------------------ claims: long lists
\* the commit the call is suspended at did not succeed
CommitFailed == wpc = "commit" /\ totalUpdated' = totalUpdated
\* the record at index j of the list is in the store with its payload
InStore(st, j) ==
  /\ st[wdocs[j].id].exists
  /\ \A f \in DOMAIN wdocs[j].data : st[wdocs[j].id].data[f] = wdocs[j].data[f]

\* C21: when the commit of a chunk fails or times out the call throws, the
\* chunk is not committed again, no later chunk is read or committed (the
\* records after the chunk are untouched and the call ends), and the
\* records of the chunks before it are still in the store.
C21_CommitFailurePropagates ==
  [][/\ CommitFailed =>
          /\ wpc' = "thrown" /\ wi' = wi
          /\ \A j \in 1..wi : store'[wdocs[j].id] = store[wdocs[j].id] /\ InStore(store', j)
          /\ \A j \in (wi + BATCH_SIZE + 1)..Len(wdocs) :
               store'[wdocs[j].id] = store[wdocs[j].id]
     /\ wpc = "thrown" => (wpc' = "idle" /\ store' = store)]_vars
C21_Witness ==
  /\ wpc = "thrown" /\ wi = BATCH_SIZE /\ Len(wdocs) = 2 * BATCH_SIZE + 1
  /\ InStore(store, 1) /\ InStore(store, BATCH_SIZE)
  /\ ~store[wdocs[BATCH_SIZE + 1].id].exists
  /\ ~store[wdocs[2 * BATCH_SIZE + 1].id].exists

\* ------------------------------------------------------------ claims: orchestrator, part 2
\* C24: in full and new modes, when the processing of an event reaches the
\* fetch of finalist rankings (and the write that follows it), that fetch
\* covers every division of the event's division list.
C24_FinalistsOfEveryDivision ==
  (mode # "live" /\ spc \in {"finalists", "finWrite"}) =>
     \A k \in 1..Len(divisions) : divisions[k] \in FinalistDivisions

\* the identities held under a low-latency path
IdsAt(nodes) == {x.id : x \in nodes}

\* C25: no step removes an identity from a store: a document of the durable
\* collection that exists goes on existing, what the durable store holds
\* for an event is not taken away, and every identity under a low-latency
\* path stays under it, also when a later list no longer names it.
C25_NeverDeleted ==
  [][/\ \A d \in DOMAIN store : store[d].exists => store'[d].exists
     /\ \A e \in EventIds :
          /\ fs[e].exists => fs'[e].exists
          /\ fs[e].matches => fs'[e].matches
          /\ fs[e].fin # "none" => fs'[e].fin # "none"
     /\ \A s \in Slots : IdsAt(rtdb[s]) \subseteq IdsAt(rtdb'[s])]_vars
C25_Witness ==
  /\ lpc = "cycle"
  /\ handled[<<"rankings", "e1", 1>>] = Fetched(ListT)
  /\ IdsAt(rtdb[<<"rankings", "e1", 1>>]) =
       {DocIdOf(RecA1), DocIdOf(Rec2), DocIdOf(RecT)}

\* C26: in the full run that follows a run in which the processing of an
\* event threw part-way, the skip decision never skips that event: control
\* stays in the event and goes on to process it again.
C26_FailedEventReprocessed ==
  [][(rerun /\ mode = "full" /\ spc \in SkipPositions /\ eventId \in failedIds)
       => evi' = evi]_vars

\* C27: the checkpoint is written only by the progress write at the end of
\* a run, it carries the mode of the run and the identity of the last event
\* of the listing whose pipeline ran to its end (never a skipped or failed
\* one), and a run in which no event ran to its end ends without writing it.
C27_CheckpointIsLastCompleted ==
  [][/\ spc = "progress" => lastDone \in 1..Len(events)
     /\ (spc = "progress" /\ spc' = "done") =>
          progress' = Checkpoint(mode, events[lastDone].id)
     /\ (spc # "progress" \/ spc' # "done") => progress' = progress
     /\ (spc \notin {"progress", "done"} /\ spc' = "done") => lastDone' = 0]_vars
\* the first event ran to its end, the second one failed
C27_Witness ==
  /\ spc = "done" /\ Len(events) = 2
  /\ failedAt = 2 /\ lastDone = 1
  /\ progress = Checkpoint(mode, events[1].id)

C29_LoopBudget ==
  [][/\ (rpc' = "cycle" /\ rpc # "cycle") =>
          /\ cycleStart' < startTime + (LOOP_DURATION_MINS * 60 * 1000)
          /\ cycleStart' = dateNow'
     /\ rpc = "cycle" =>
          /\ rpc' \in {"sleep", "while"}
          /\ lastEnd' = dateNow' /\ dateNow' > dateNow
     /\ (rpc = "while" /\ dateNow >= startTime + (LOOP_DURATION_MINS * 60 * 1000))
          => rpc' = "exited"
     /\ rpc' = "exited" =>
          dateNow' >= startTime' + (LOOP_DURATION_MINS * 60 * 1000)]_vars
\* the cycle before the last one threw, the last one was running when the
\* budget expired and settled after it, and the loop has exited
C29_Witness ==
  /\ rpc = "exited"
  /\ prevFailed
  /\ cycleStart < endTime /\ lastEnd > endTime

\* C30: the start of each cycle is at least INTERVAL_MS after the start of the
\* cycle before it, or at least 1 s after that cycle's end when it took longer
\* than the interval; no cycle starts at the instant the one before it ended.
C30_CyclePacing ==
  (rpc = "cycle" /\ prevStart # NoTime) =>
    /\ IF lastEnd - prevStart > INTERVAL_MS
         THEN cycleStart >= lastEnd + LoopMinWait
         ELSE cycleStart >= prevStart + INTERVAL_MS
    /\ cycleStart > lastEnd

\* ------------------------------------------------------------ claims: backoff fetcher
\* C31: within one apiGet call the n-th 429 (n = 0..4) is followed by a wait
\* of 2^n seconds and a retry, the sixth 429 makes the call throw the
\* rate-limit-exceeded error, and a call makes at most 6 requests that are
\* answered 429 and at most NumKeys + 1 that are answered 401, so it ends.
C31_ExponentialBackoff ==
  /\ waits <= maxRetries
  /\ authRetryCount <= NumKeys + 1
  /\ apc = "backoff" => (status = 429 /\ waitTime = (2 ^ waits) * 1000)
  /\ (apc = "thrown" /\ status = 429) => (waits = maxRetries /\ error = "RateLimitExceeded")
  /\ error = "RateLimitExceeded" => (status = 429 /\ waits = maxRetries)
\* a call whose sixth rate-limited request made it throw
C31_Witness ==
  /\ apc = "thrown" /\ error = "RateLimitExceeded"
  /\ waits = 5 /\ waitTime = 16000

\* ------------------------------------------------------------ claims: chunking
ChunkIndexes == (wi + 1)..Min(wi + BATCH_SIZE, Len(wdocs))
AbsentOrDifferent(j) ==
  LET cur == store[wdocs[j].id]
  IN \/ ~cur.exists
     \/ ~deepEqual(cleanForComparison(StripLastUpdated(cur.data)),
                   cleanForComparison(wdocs[j].data))
ChunkEnds == wpc \in {"chunk", "commit"} /\ wi' = wi + BATCH_SIZE
ChunkShape ==
  /\ Cardinality(ChunkIndexes) <= BATCH_SIZE
  /\ wpc = "commit" =>
       /\ Len(staged) <= BATCH_SIZE
       /\ \A k \in 1..Len(staged) :
            /\ staged[k].index \in ChunkIndexes
            /\ k > 1 => staged[k - 1].index < staged[k].index
  /\ totalUpdated' + totalSkipped' = Min(wi + BATCH_SIZE, Len(wdocs))
  /\ wpc' = "done" <=> wi + BATCH_SIZE >= Len(wdocs)

\* C32: records are processed in consecutive slices of at most 500 in input
\* order, every commit holds at most 500 staged writes, each finished chunk
\* adds to the return value the number of its records whose stored document
\* was absent or different, and written + skipped is the number of records
\* processed, the whole list at the return.
C32_ChunkingAndCounting ==
  [][ChunkEnds =>
       /\ ChunkShape
       /\ totalUpdated' - totalUpdated =
            Cardinality({j \in ChunkIndexes : AbsentOrDifferent(j)})]_vars

\* C32 as amended: the same, the count of a chunk being the number of its
\* records absent or different when the read of the chunk's existing
\* documents succeeded, and the size of the chunk when that read failed.
C32_ChunkingAndCountingWhenRead ==
  [][ChunkEnds =>
       /\ ChunkShape
       /\ totalUpdated' - totalUpdated =
            IF wcheck /\ readOk'
              THEN Cardinality({j \in ChunkIndexes : AbsentOrDifferent(j)})
              ELSE Cardinality(ChunkIndexes)]_vars
\* a list of 501 records has returned: the 500 of its first chunk were
\* written and the one of its second chunk was skipped as unchanged
C32_Witness ==
  /\ wpc = "done" /\ Len(wdocs) = BATCH_SIZE + 1 /\ readOk
  /\ totalUpdated = BATCH_SIZE /\ totalSkipped = 1

\* ------------------------------------------------------------ claims: fetcher, part 2
\* C33: within one apiGet call every 401 blacklists a key that was not
\* blacklisted before, so the 401s handled by the call never exceed the number
\* of configured keys and the throw guarded by authRetryCount >
\* allApiKeys.length is never taken.
C33_AuthRetriesWithinKeys ==
  /\ authRetryCount <= Cardinality(blacklistedKeys)
  /\ blacklistedKeys \subseteq Range(allApiKeys)
  /\ authRetryCount <= NumKeys
  /\ error # "AuthExhausted"
\* every configured key has answered 401 within one call, which goes on
C33_Witness ==
  /\ authRetryCount = NumKeys /\ status = 401
  /\ apc = "top" /\ error = "none"

\* ------------------------------------------------------------ claims: orchestrator, part 3
\* C34: when the publish of a rankings or matches list fails (the
\* low-latency store does not take the update), the cache entry of that
\* list stays as it was, so that the next cycle that fetches the same list
\* calls the publisher again.
C34_FailedPublishRetried ==
  [][(spc \in PublishPositions /\ rtdb'[Slot] # RtdbUpdate(rtdb[Slot], listDocs))
       => cache'[Slot] = cache[Slot]]_vars

\* ------------------------------------------------------------ claims: durable writer, part 2
\* C35: when batchWriteToFirestore throws for the commit of a chunk, none of
\* the writes staged for that chunk is applied to the store.
C35_TimedOutCommitNotApplied ==
  [][(wpc = "commit" /\ wpc' = "thrown") => store' = store]_vars

\* C36: in the new-mode run that follows a run in which the processing of an
\* event threw after its metadata had been stored, the skip decision never
\* skips that event: control stays in the event and processes it.
C36_NewModeReprocessesFailed ==
  [][(rerun /\ mode = "new" /\ spc \in SkipPositions
        /\ eventId \in failedIds /\ fs[eventId].exists)
       => evi' = evi]_vars

\* C37: in new and full modes, when the read of the event document or the
\* read of the matches sample fails, the event is not skipped and the run is
\* not aborted: control goes on to the metadata write of the same event.
C37_SkipDecisionFailOpen ==
  [][(spc \in SkipPositions /\ skipRead' \in FailedReads) =>
       /\ mode \in {"new", "full"}
       /\ evi' = evi /\ spc' = "meta"
       /\ failedAt' = failedAt /\ fatalAt' = fatalAt /\ cause' = cause]_vars
\* a full run processes a stored past event whose matches sample it could
\* not read
C37_Witness ==
  /\ mode = "full" /\ skipRead = "failedSample"
  /\ spc = "details" /\ failedAt = 0
  /\ fs[eventId].exists /\ fs[eventId].matches

\* ------------------------------------------------------------ claims: cooldown fetcher
\* C38: the rotation without the bounds reset returns an element of the list
\* it is given on every call, so every request of the fetcher with the
\* per-key cooldown carries a key of the list filtered for it, and only
\* configured keys are ever blacklisted.
C38_RotationStaysInList ==
  /\ apc = "request" => apiKey \in Range(availableKeys)
  /\ blacklistedKeys \subseteq Range(allApiKeys)

====
